---------------------------- MODULE Spec2Model ----------------------------
(***************************************************************************)
(* A model of the Bear API software rasterizer (src/br.h).                 *)
(*                                                                         *)
(* The state is the process-wide current-context pointer, the contents of  *)
(* every allocated brcontext, and the externally owned pixel memory the    *)
(* contexts point into.  Each API entry point is one action.               *)
(*                                                                         *)
(* Numbers.  A C float of the vertex pipeline is modelled by an integer    *)
(* holding the value times FOne (2^8), so 1.0f is 256; the inputs are      *)
(* chosen so that every operation performed on these is exact.  Where the  *)
(* code rounds (depth interpolation, line lengths, blending, texels) a     *)
(* float is a triple <<s, m, e>> of single precision.  A NaN argument is   *)
(* the distinguished value NaN, and the float comparisons of the code are  *)
(* the operators FLt and FGt, which are false when an operand is NaN.      *)
(***************************************************************************)
EXTENDS Integers, Sequences, FiniteSets, TLC

(***************************************************************************)
(* Program constants (src/br.h, the #define lines).                        *)
(***************************************************************************)
BR_NUM_TEXTURE_UNITS == 256
BR_DOUBLE_BUFFER == 0
BR_DEPTH_WRITE == 1
BR_DEPTH_TEST == 2
BR_PERSPECTIVE_CORRECTION == 3
BR_TEXTURE == 4
BR_BLEND == 5
BR_CULL == 6
BR_CLIP == 7
BR_PERSPECTIVE_DIVISION == 8
BR_SCALE_Z == 9
BR_VERTEX_SHADER == 10
BR_FRAGMENT_SHADER == 11
BR_FILL == 14
BR_LINE == 15
BR_POINT == 16
BR_TRIANGLE == 17
BR_TRIANGLES == 18
BR_LINES == 19
BR_POINTS == 20
BR_VERTEX_ARRAY == 21
BR_COLOR_ARRAY == 22
BR_NORMAL_ARRAY == 23
BR_TEXCOORD_ARRAY == 24
BR_CW == 25
BR_CCW == 26
BR_R8G8B8A8 == 27
BR_R8G8B8 == 28
BR_A8B8G8R8 == 29
BR_B8G8R8 == 30
BR_R5G5B5A1 == 31
BR_R5G5B5 == 32
BR_A1B5G5R5 == 33
BR_B5G5R5 == 34
BR_R3G2B2A1 == 35
BR_R3G3B2 == 36
BR_A1B2G2R3 == 37
BR_B2G3R3 == 38
BR_D16 == 39
BR_D32 == 40
BR_VERTEX_TYPE == 41
BR_VERTEX_POSITION == 42
BR_VERTEX_COLOR == 43
BR_VERTEX_NORMALS == 44
BR_VERTEX_TEXTURE_COORDINATES == 45
BR_PRIMITIVE_COLOR == 46
BR_TEXTURE_COLOR == 47
BR_FRAGMENT_COLOR == 48
BR_BARY_LINEAR == 49
BR_BARY_PERSPECTIVE == 50
BR_FRAGMENT_POSITION == 51
BR_FRAGMENT_DEPTH == 52

\* BR_COLOR_BUFFER_BIT (0x80000000) and BR_DEPTH_BUFFER_BIT (0x40000000): a
\* `buffers' argument is modelled by the set of these two bits that are set in it.
COLOR_BIT == "BR_COLOR_BUFFER_BIT"
DEPTH_BIT == "BR_DEPTH_BUFFER_BIT"
BufferBitSets == SUBSET {COLOR_BIT, DEPTH_BIT}

NULL == 0

(***************************************************************************)
(* Floats.                                                                 *)
(***************************************************************************)
FOne == 256
NaN == -2147483647

FLt(a, b) == a # NaN /\ b # NaN /\ a < b
FGt(a, b) == a # NaN /\ b # NaN /\ a > b
FGe(a, b) == a # NaN /\ b # NaN /\ a >= b

(***************************************************************************)
(* Bounds of the model.                                                    *)
(***************************************************************************)
\* how many brcontext objects the application may have allocated at a time
MaxCtx == 2

CtxIds == 1..MaxCtx


(***************************************************************************)
(* Externally owned memory.  The application owns four pixel arrays and    *)
(* hands their addresses to brBindRenderbuffer; the library never          *)
(* allocates or frees them.  Buffers 1 and 2 are a colour and a depth      *)
(* array of BigW x BigH pixels, buffers 3 and 4 a colour and a depth array *)
(* of SmallW x SmallH pixels.  A pointer is the buffer's number; NULL is 0.*)
(***************************************************************************)
BigW == 2
BigH == 2
SmallW == 1
SmallH == 1

BufCA == 1
BufDA == 2
BufCS == 3
BufDS == 4
BufIds == {BufCA, BufDA, BufCS, BufDS}

\* the type and dimensions the application created each array with
BufType(b) == CASE b = BufCA -> BR_R8G8B8A8
                [] b = BufDA -> BR_D16
                [] b = BufCS -> BR_R5G5B5A1
                [] b = BufDS -> BR_D32
BufW(b) == IF b \in {BufCA, BufDA} THEN BigW ELSE SmallW
BufH(b) == IF b \in {BufCA, BufDA} THEN BigH ELSE SmallH

\* what every pixel of every array holds before the library touches it
StalePixel == <<0, 1>>

ColorFormats == {BR_R8G8B8A8, BR_R8G8B8, BR_A8B8G8R8, BR_B8G8R8,
                 BR_R5G5B5A1, BR_R5G5B5, BR_A1B5G5R5, BR_B5G5R5,
                 BR_R3G2B2A1, BR_R3G3B2, BR_A1B2G2R3, BR_B2G3R3}
DepthFormats == {BR_D16, BR_D32}

_is_pixel_format(value) == value \in ColorFormats

(***************************************************************************)
(* State.                                                                  *)
(***************************************************************************)
VARIABLES
    cur,      \* _brcontext: the current context (a context id, or NULL)
    alive,    \* the contexts brCreateContext returned and brFreeContext has not freed
    ctx,      \* the contents of each brcontext object
    mem,      \* the contents of the externally owned pixel arrays
    fault,    \* "none", or what a dereference of the NULL _brcontext led to:
              \* "crashed" (the access trapped) or "undefined" (it did not)
    pending,  \* the fragments the draw call in progress has generated and not yet
              \* finalized, in the order it finalizes them
    last      \* the API call that produced this state: its name and arguments,
              \* the value _brcontext had when it was made (cur0), what the current
              \* context held when it was made (before), and, for a run of
              \* brSwapBuffers calls with nothing in between, how many of a pair
              \* have been made (run) and what the context held before the first
              \* (base); and the fragment finalized last in that call (frag) with
              \* what its pixel held before (dst_color, dst_depth)

vars == <<cur, alive, ctx, mem, fault, pending, last>>

\* a texture unit that was never uploaded to, or was cleared (brTexture, 3458-3462)
EmptyUnit == [data |-> NULL, width |-> 0, height |-> 0, format |-> 0, compressed |-> FALSE]

\* The context brCreateContext returns.  `textures' holds the units that differ
\* from EmptyUnit (the five per-unit arrays of the struct, 262-266).
DefaultContext ==
    [cb |-> NULL, db |-> NULL, cb2 |-> NULL, db2 |-> NULL,
     cb_type |-> 0, db_type |-> 0, cb2_type |-> 0, db2_type |-> 0,
     rb_width |-> 0, rb_height |-> 0, rb2_width |-> 0, rb2_height |-> 0,
     clear_color |-> <<0, 0, 0, 0>>, clear_depth |-> FOne, point_radius |-> FOne,
     double_buffer |-> FALSE, depth_write |-> TRUE, depth_test |-> TRUE,
     persp_corr |-> TRUE, texture |-> TRUE, blend |-> FALSE, cull |-> FALSE,
     cull_winding |-> BR_CW, clip |-> TRUE, persp_div |-> TRUE, scale_z |-> TRUE,
     poly_mode |-> BR_FILL,
     vertex_array |-> FALSE, color_array |-> FALSE,
     normal_array |-> FALSE, tcoord_array |-> FALSE,
     vertex_stride |-> 0, color_stride |-> 0, normal_stride |-> 0, tcoord_stride |-> 0,
     vertex_offset |-> 0, color_offset |-> 0, normal_offset |-> 0, tcoord_offset |-> 0,
     vertex_count |-> 0, color_count |-> 0,
     texture_unit |-> 0, textures |-> << >>,
     vshader |-> NULL, fshader |-> NULL,
     sh_vposition |-> FALSE, sh_vcolor |-> FALSE, sh_vtcoords |-> FALSE,
     sh_vnormals |-> FALSE, sh_vtype |-> FALSE,
     sh_prim_color |-> FALSE, sh_tex_color |-> FALSE, sh_frag_color |-> FALSE,
     sh_bary_linear |-> FALSE, sh_bary_persp |-> FALSE,
     sh_fposition |-> FALSE, sh_fdepth |-> FALSE]

\* the object _brcontext points at (the defaults stand in when it is NULL; every
\* handler that reads it checks cur first or is a fault)
Current == IF cur = NULL THEN DefaultContext ELSE ctx[cur]

\* no fragment
NoFragment == [kind |-> "none", x |-> 0, y |-> 0, depth |-> <<0, 0>>, rgba |-> <<0, 0, 0, 0>>]

Call(op, args) == [op |-> op, args |-> args, cur0 |-> cur, before |-> Current,
                   run |-> 0, base |-> DefaultContext,
                   frag |-> NoFragment, dst_color |-> <<0, 0>>, dst_depth |-> <<0, 0>>]

\* Before the application has called anything: no context exists, none is bound.
Init ==
    /\ cur = NULL
    /\ alive = {}
    /\ ctx = [c \in CtxIds |-> DefaultContext]
    /\ mem = [b \in BufIds |-> [i \in 1..(BufW(b) * BufH(b)) |-> StalePixel]]
    /\ fault = "none"
    /\ pending = << >>
    /\ last = [op |-> "start", args |-> << >>, cur0 |-> NULL, before |-> DefaultContext,
               run |-> 0, base |-> DefaultContext,
               frag |-> NoFragment, dst_color |-> <<0, 0>>, dst_depth |-> <<0, 0>>]

\* the application can make a call: the program has not dereferenced a NULL
\* _brcontext (after which nothing about it is defined) and no draw call is
\* in progress
Running == fault = "none" /\ pending = << >>

(***************************************************************************)
(* Context lifecycle.                                                      *)
(***************************************************************************)
\* brCreateContext: malloc returns an address not in use; the object is
\* initialised field by field.  The current context is not changed.
brCreateContext ==
    /\ Running
    /\ \E c \in CtxIds \ alive :
          /\ alive' = alive \cup {c}
          /\ ctx' = [ctx EXCEPT ![c] = DefaultContext]
          /\ last' = Call("brCreateContext", <<c>>)
    /\ UNCHANGED <<cur, mem, fault, pending>>

\* the value of _brcontext after brBindContext(context)
BindContextResult(current, context) == IF context # NULL THEN context ELSE current

brBindContext(context) ==
    /\ Running
    /\ cur' = BindContextResult(cur, context)
    /\ last' = Call("brBindContext", <<context>>)
    /\ UNCHANGED <<alive, ctx, mem, fault, pending>>

\* brFreeContext leaving the binding alone (for comparison)
FreeContextKeepsBinding(current, context) == current

\* the value of _brcontext after brFreeContext(context)
FreeContextResult(current, context) ==
    IF context = NULL THEN current
    ELSE IF context = current THEN NULL ELSE current

\* brFreeContext: the object's storage is released; its contents are gone (the
\* model resets them, the next brCreateContext initialises them anyway).
brFreeContext(context) ==
    /\ Running
    /\ cur' = FreeContextResult(cur, context)
    /\ alive' = alive \ {context}
    /\ ctx' = IF context = NULL THEN ctx ELSE [ctx EXCEPT ![context] = DefaultContext]
    /\ last' = Call("brFreeContext", <<context>>)
    /\ UNCHANGED <<mem, fault, pending>>

(***************************************************************************)
(* Render targets.                                                         *)
(***************************************************************************)
\* the six slots of the front set and of the back set of a context
FrontSet(c) == [cb |-> c.cb, db |-> c.db, cb_type |-> c.cb_type, db_type |-> c.db_type,
                width |-> c.rb_width, height |-> c.rb_height]
BackSet(c) == [cb |-> c.cb2, db |-> c.db2, cb_type |-> c.cb2_type, db_type |-> c.db2_type,
               width |-> c.rb2_width, height |-> c.rb2_height]

\* brBindRenderbuffer without the comparison against the front set's dimensions
BindRenderbufferAnySize(c, type, width, height, buffer) ==
    IF buffer = NULL \/ width < 1 \/ height < 1 THEN c
    ELSE IF type \in ColorFormats
    THEN [c EXCEPT !.cb = buffer, !.cb_type = type, !.rb_width = width, !.rb_height = height]
    ELSE IF type \in DepthFormats
    THEN [c EXCEPT !.db = buffer, !.db_type = type, !.rb_width = width, !.rb_height = height]
    ELSE c

\* brBindRenderbuffer on a context c (after the _brcontext check)
BindRenderbuffer(c, type, width, height, buffer) ==
    IF buffer = NULL \/ width < 1 \/ height < 1 THEN c
    ELSE IF (c.cb # NULL \/ c.db # NULL) /\ (width # c.rb_width \/ height # c.rb_height)
    THEN c
    ELSE IF type \in ColorFormats
    THEN [c EXCEPT !.cb = buffer, !.cb_type = type, !.rb_width = width, !.rb_height = height]
    ELSE IF type \in DepthFormats
    THEN [c EXCEPT !.db = buffer, !.db_type = type, !.rb_width = width, !.rb_height = height]
    ELSE c

brBindRenderbuffer(type, width, height, buffer) ==
    /\ Running
    /\ ctx' = IF cur = NULL THEN ctx
              ELSE [ctx EXCEPT ![cur] = BindRenderbuffer(@, type, width, height, buffer)]
    /\ last' = Call("brBindRenderbuffer", <<type, width, height, buffer>>)
    /\ UNCHANGED <<cur, alive, mem, fault, pending>>

\* brUnbindRenderbuffer without the reset of the dimensions
UnbindRenderbufferKeepSize(c, buffers) ==
    LET c1 == IF COLOR_BIT \in buffers THEN [c EXCEPT !.cb = NULL, !.cb_type = 0] ELSE c
    IN  IF DEPTH_BIT \in buffers THEN [c1 EXCEPT !.db = NULL, !.db_type = 0] ELSE c1

\* brUnbindRenderbuffer on a context c (after the _brcontext check)
UnbindRenderbuffer(c, buffers) ==
    LET c1 == IF COLOR_BIT \in buffers THEN [c EXCEPT !.cb = NULL, !.cb_type = 0] ELSE c
        c2 == IF DEPTH_BIT \in buffers THEN [c1 EXCEPT !.db = NULL, !.db_type = 0] ELSE c1
    IN  IF c2.cb = NULL /\ c2.db = NULL
        THEN [c2 EXCEPT !.rb_width = 0, !.rb_height = 0]
        ELSE c2

brUnbindRenderbuffer(buffers) ==
    /\ Running
    /\ ctx' = IF cur = NULL THEN ctx ELSE [ctx EXCEPT ![cur] = UnbindRenderbuffer(@, buffers)]
    /\ last' = Call("brUnbindRenderbuffer", <<buffers>>)
    /\ UNCHANGED <<cur, alive, mem, fault, pending>>

\* brSwapBuffers without the temporaries: the front set is overwritten by the
\* back set and its old values are lost
SwapBuffersNoSave(c) ==
    IF ~c.double_buffer THEN c
    ELSE [c EXCEPT !.cb = c.cb2, !.db = c.db2,
                   !.cb_type = c.cb2_type, !.db_type = c.db2_type,
                   !.rb_width = c.rb2_width, !.rb_height = c.rb2_height]

\* brSwapBuffers without the double_buffer test
SwapBuffersAlways(c) ==
    [c EXCEPT !.cb = c.cb2, !.db = c.db2,
              !.cb_type = c.cb2_type, !.db_type = c.db2_type,
              !.rb_width = c.rb2_width, !.rb_height = c.rb2_height,
              !.cb2 = c.cb, !.db2 = c.db,
              !.cb2_type = c.cb_type, !.db2_type = c.db_type,
              !.rb2_width = c.rb_width, !.rb2_height = c.rb_height]

\* brSwapBuffers on a context c (after the _brcontext check)
SwapBuffers(c) ==
    IF ~c.double_buffer THEN c
    ELSE [c EXCEPT !.cb = c.cb2, !.db = c.db2,
                   !.cb_type = c.cb2_type, !.db_type = c.db2_type,
                   !.rb_width = c.rb2_width, !.rb_height = c.rb2_height,
                   !.cb2 = c.cb, !.db2 = c.db,
                   !.cb2_type = c.cb_type, !.db2_type = c.db_type,
                   !.rb2_width = c.rb_width, !.rb2_height = c.rb_height]

brSwapBuffers ==
    /\ Running
    /\ ctx' = IF cur = NULL THEN ctx ELSE [ctx EXCEPT ![cur] = SwapBuffers(@)]
    /\ last' = LET second == last.op = "brSwapBuffers" /\ last.run = 1
               IN  [Call("brSwapBuffers", << >>) EXCEPT
                       !.run = IF second THEN 2 ELSE 1,
                       !.base = IF second THEN last.base ELSE Current]
    /\ UNCHANGED <<cur, alive, mem, fault, pending>>

(***************************************************************************)
(* Toggled states.                                                         *)
(***************************************************************************)
\* the switch of brEnable (value TRUE) and brDisable (value FALSE)
SetState(c, state, value) ==
    CASE state = BR_DOUBLE_BUFFER -> [c EXCEPT !.double_buffer = value]
      [] state = BR_DEPTH_WRITE -> [c EXCEPT !.depth_write = value]
      [] state = BR_DEPTH_TEST -> [c EXCEPT !.depth_test = value]
      [] state = BR_PERSPECTIVE_CORRECTION -> [c EXCEPT !.persp_corr = value]
      [] state = BR_TEXTURE -> [c EXCEPT !.texture = value]
      [] state = BR_BLEND -> [c EXCEPT !.blend = value]
      [] state = BR_CULL -> [c EXCEPT !.cull = value]
      [] state = BR_CLIP -> [c EXCEPT !.clip = value]
      [] state = BR_PERSPECTIVE_DIVISION -> [c EXCEPT !.persp_div = value]
      [] state = BR_SCALE_Z -> [c EXCEPT !.scale_z = value]
      [] state = BR_VERTEX_ARRAY -> [c EXCEPT !.vertex_array = value]
      [] state = BR_COLOR_ARRAY -> [c EXCEPT !.color_array = value]
      [] state = BR_NORMAL_ARRAY -> [c EXCEPT !.normal_array = value]
      [] state = BR_TEXCOORD_ARRAY -> [c EXCEPT !.tcoord_array = value]
      [] state = BR_VERTEX_TYPE -> [c EXCEPT !.sh_vtype = value]
      [] state = BR_VERTEX_POSITION -> [c EXCEPT !.sh_vposition = value]
      [] state = BR_VERTEX_COLOR -> [c EXCEPT !.sh_vcolor = value]
      [] state = BR_VERTEX_NORMALS -> [c EXCEPT !.sh_vnormals = value]
      [] state = BR_VERTEX_TEXTURE_COORDINATES -> [c EXCEPT !.sh_vtcoords = value]
      [] state = BR_PRIMITIVE_COLOR -> [c EXCEPT !.sh_prim_color = value]
      [] state = BR_TEXTURE_COLOR -> [c EXCEPT !.sh_tex_color = value]
      [] state = BR_FRAGMENT_COLOR -> [c EXCEPT !.sh_frag_color = value]
      [] state = BR_BARY_LINEAR -> [c EXCEPT !.sh_bary_linear = value]
      [] state = BR_BARY_PERSPECTIVE -> [c EXCEPT !.sh_bary_persp = value]
      [] state = BR_FRAGMENT_POSITION -> [c EXCEPT !.sh_fposition = value]
      [] state = BR_FRAGMENT_DEPTH -> [c EXCEPT !.sh_fdepth = value]
      [] OTHER -> c

brEnable(state) ==
    /\ Running
    /\ ctx' = IF cur = NULL THEN ctx ELSE [ctx EXCEPT ![cur] = SetState(@, state, TRUE)]
    /\ last' = Call("brEnable", <<state>>)
    /\ UNCHANGED <<cur, alive, mem, fault, pending>>

brDisable(state) ==
    /\ Running
    /\ ctx' = IF cur = NULL THEN ctx ELSE [ctx EXCEPT ![cur] = SetState(@, state, FALSE)]
    /\ last' = Call("brDisable", <<state>>)
    /\ UNCHANGED <<cur, alive, mem, fault, pending>>

(***************************************************************************)
(* Pixel encodings (the packing macros) and brClear.                       *)
(***************************************************************************)
RECURSIVE BitOr(_, _)
BitOr(a, b) ==
    IF a = 0 THEN b
    ELSE IF b = 0 THEN a
    ELSE (IF a % 2 = 1 \/ b % 2 = 1 THEN 1 ELSE 0) + 2 * BitOr(a \div 2, b \div 2)

Or3(a, b, c) == BitOr(BitOr(a, b), c)
Or4(a, b, c, d) == BitOr(BitOr(a, b), BitOr(c, d))
Shl(x, n) == x * (2 ^ n)
U8(x) == x % 256
U16(x) == x % 65536

\* A 32-bit word (and the int64_t of a depth) is the pair <<hi, lo>> of value
\* hi * 2^16 + lo, with lo in 0..65535; what is stored in an 8- or 16-bit pixel
\* is <<0, value>>.  WLe is <= on these pairs.
Word(hi, lo) == <<hi, lo>>
WLe(x, y) == x[1] < y[1] \/ (x[1] = y[1] /\ x[2] <= y[2])

\* the packing macros; every operand is a uint8_t at every use
_BR_R8G8B8A8(r, g, b, a) == Word(BitOr(g, Shl(r, 8)), BitOr(a, Shl(b, 8)))
_BR_R8G8B8(r, g, b) == Word(r, BitOr(b, Shl(g, 8)))
_BR_A8B8G8R8(r, g, b, a) == Word(BitOr(b, Shl(a, 8)), BitOr(r, Shl(g, 8)))
_BR_B8G8R8(r, g, b) == Word(b, BitOr(r, Shl(g, 8)))
_BR_R5G5B5A1(r, g, b, a) == Word(0, U16(Or4(a, Shl(b, 1), Shl(g, 6), Shl(r, 11))))
_BR_R5G5B5(r, g, b) == Word(0, U16(Or3(b, Shl(g, 5), Shl(r, 10))))
_BR_A1B5G5R5(r, g, b, a) == Word(0, U16(Or4(r, Shl(g, 5), Shl(b, 10), Shl(a, 15))))
_BR_B5G5R5(r, g, b) == Word(0, U16(Or3(r, Shl(g, 5), Shl(b, 10))))
_BR_R3G2B2A1(r, g, b, a) == Word(0, U8(Or4(a, Shl(b, 1), Shl(g, 3), Shl(r, 5))))
_BR_R3G3B2(r, g, b) == Word(0, U8(Or3(b, Shl(g, 2), Shl(r, 5))))
_BR_A1B2G2R3(r, g, b, a) == Word(0, U8(Or4(r, Shl(g, 3), Shl(b, 5), Shl(a, 7))))
_BR_B2G3R3(r, g, b) == Word(0, U8(Or3(r, Shl(g, 3), Shl(b, 6))))

\* (uint8_t)(channel * scale): the product is truncated.  The conversion of a
\* NaN is undefined; the model keeps the two extreme bytes as its outcomes.
ClearChannel(channel, scale) ==
    IF channel = NaN THEN {0, 255} ELSE {U8((channel * scale) \div FOne)}

\* (channel != 0.0f), true for a NaN
ClearAlphaBit(channel) == IF channel # 0 THEN 1 ELSE 0

\* the colour brClear computes from clear_color for a buffer of `type'
ClearColorValues(type, cc) ==
    LET r8 == ClearChannel(cc[1], 255)  g8 == ClearChannel(cc[2], 255)
        b8 == ClearChannel(cc[3], 255)  a8 == ClearChannel(cc[4], 255)
        r5 == ClearChannel(cc[1], 31)   g5 == ClearChannel(cc[2], 31)
        b5 == ClearChannel(cc[3], 31)
        r3 == ClearChannel(cc[1], 8)    g3 == ClearChannel(cc[2], 8)
        g2 == ClearChannel(cc[2], 4)    b2 == ClearChannel(cc[3], 4)
        a1 == ClearAlphaBit(cc[4])
    IN  CASE type = BR_R8G8B8A8 -> {_BR_R8G8B8A8(r, g, b, a) : r \in r8, g \in g8, b \in b8, a \in a8}
          [] type = BR_R8G8B8 -> {_BR_R8G8B8(r, g, b) : r \in r8, g \in g8, b \in b8}
          [] type = BR_A8B8G8R8 -> {_BR_A8B8G8R8(r, g, b, a) : r \in r8, g \in g8, b \in b8, a \in a8}
          [] type = BR_B8G8R8 -> {_BR_B8G8R8(r, g, b) : r \in r8, g \in g8, b \in b8}
          [] type = BR_R5G5B5A1 -> {_BR_R5G5B5A1(r, g, b, a1) : r \in r5, g \in g5, b \in b5}
          [] type = BR_R5G5B5 -> {_BR_R5G5B5(r, g, b) : r \in r5, g \in g5, b \in b5}
          [] type = BR_A1B5G5R5 -> {_BR_A1B5G5R5(r, g, b, a1) : r \in r5, g \in g5, b \in b5}
          [] type = BR_B5G5R5 -> {_BR_B5G5R5(r, g, b) : r \in r5, g \in g5, b \in b5}
          [] type = BR_R3G2B2A1 -> {_BR_R3G2B2A1(r, g, b, a1) : r \in r3, g \in g2, b \in b2}
          [] type = BR_R3G3B2 -> {_BR_R3G3B2(r, g, b) : r \in r3, g \in g3, b \in b2}
          [] type = BR_A1B2G2R3 -> {_BR_A1B2G2R3(r, g, b, a1) : r \in r3, g \in g2, b \in b2}
          [] type = BR_B2G3R3 -> {_BR_B2G3R3(r, g, b) : r \in r3, g \in g3, b \in b2}
          [] OTHER -> {}

\* the largest value a depth buffer of `type' stores: 0xFFFF or 0xFFFFFFFF
DepthMax(type) == IF type = BR_D16 THEN Word(0, 65535) ELSE Word(65535, 65535)

\* the int64_t that `depth * 0xFFFF' (BR_D16) or `depth * 0xFFFFFFFF' (BR_D32;
\* as a float the factor is 2^32) converts to: the product is truncated toward
\* zero.  x * 65535 is x * 65536 - x, and x * 2^32 has no low half.
DepthProduct(type, depth) ==
    LET mag == IF depth < 0 THEN 0 - depth ELSE depth
        p16 == (mag * 256) - ((mag + (FOne - 1)) \div FOne)
    IN  IF type = BR_D16
        THEN (IF depth < 0 THEN Word(0 - ((p16 + 65535) \div 65536), (65536 - (p16 % 65536)) % 65536)
              ELSE Word(p16 \div 65536, p16 % 65536))
        ELSE Word(depth * 256, 0)

\* the depth brClear computes from clear_depth, clamped to the range of the
\* type.  The conversion of a NaN is undefined; the model keeps the two
\* extremes as its outcomes.
ClearDepthValues(type, cd) ==
    IF type \notin DepthFormats THEN {}
    ELSE IF cd = NaN THEN {Word(0, 0), DepthMax(type)}
    ELSE LET d == DepthProduct(type, cd)
         IN  {IF ~WLe(d, DepthMax(type)) THEN DepthMax(type)
              ELSE IF ~WLe(Word(0, 0), d) THEN Word(0, 0) ELSE d}

\* brClear choosing its set the other way round
ClearSetOther(c) == IF c.double_buffer THEN FrontSet(c) ELSE BackSet(c)

\* the set brClear works on
ClearSet(c) == IF c.double_buffer THEN BackSet(c) ELSE FrontSet(c)

\* a fill that leaves alone what already holds the value but for its first
\* pixel, which it makes stale
FillOnce(m, buffer, pixels, value) ==
    [m EXCEPT ![buffer] = [i \in DOMAIN @ |->
        IF i > pixels THEN @[i]
        ELSE IF i = 1 /\ @[i] = value THEN StalePixel ELSE value]]

\* `for(i = 0; i < pixels; i += 1) buffer[i] = value'
Fill(m, buffer, pixels, value) ==
    [m EXCEPT ![buffer] = [i \in DOMAIN @ |-> IF i <= pixels THEN value ELSE @[i]]]

brClear(buffers) ==
    /\ Running
    /\ IF cur = NULL THEN mem' = mem
       ELSE LET t == ClearSet(ctx[cur])
                clear_cb == t.cb # NULL /\ COLOR_BIT \in buffers
                clear_db == t.db # NULL /\ DEPTH_BIT \in buffers
                pixels == t.width * t.height
            IN  \E color \in (IF clear_cb THEN ClearColorValues(t.cb_type, ctx[cur].clear_color)
                              ELSE {Word(0, 0)}),
                   depth \in (IF clear_db THEN ClearDepthValues(t.db_type, ctx[cur].clear_depth)
                              ELSE {Word(0, 0)}) :
                    LET m1 == IF clear_cb THEN Fill(mem, t.cb, pixels, color) ELSE mem
                    IN  mem' = IF clear_db THEN Fill(m1, t.db, pixels, depth) ELSE m1
    /\ last' = [Call("brClear", <<buffers>>) EXCEPT
                  !.run = IF last.op = "brClear" /\ last.args = <<buffers>> THEN 2 ELSE 1]
    /\ UNCHANGED <<cur, alive, ctx, fault, pending>>

(***************************************************************************)
(* Integer helpers of the rasterizers.  Products that need more than 31    *)
(* bits are computed in 16-bit halves.                                     *)
(***************************************************************************)
\* integer division as C does it: toward zero; _idiv gives 0 for a zero divisor
TruncDiv(a, b) ==
    IF (a >= 0) = (b > 0) THEN (IF a >= 0 THEN a \div b ELSE (0 - a) \div (0 - b))
    ELSE 0 - (IF a >= 0 THEN a \div (0 - b) ELSE (0 - a) \div b)
_idiv(a, b) == IF b = 0 THEN 0 ELSE TruncDiv(a, b)
Abs(a) == IF a < 0 THEN 0 - a ELSE a

\* floor of the square root of n >= 0, n < hi * hi
RECURSIVE SqrtBetween(_, _, _)
SqrtBetween(n, lo, hi) ==
    IF hi - lo <= 1 THEN lo
    ELSE LET mid == (lo + hi) \div 2
         IN  IF mid * mid <= n THEN SqrtBetween(n, mid, hi) ELSE SqrtBetween(n, lo, mid)
ISqrt(n) == SqrtBetween(n, 0, 46340)

\* a pair <<hi, lo>> with any lo, brought to 0 <= lo < 65536
WNorm(x) == <<x[1] + (x[2] \div 65536), x[2] % 65536>>
\* the product of a and b, both in 0..65535
Mul16(a, b) ==
    LET x == a * (b \div 256)
        y == a * (b % 256)
    IN  WNorm(<<x \div 256, ((x % 256) * 256) + y>>)
\* ((uint32_t)a * b) >> 16 for a 16.16 attribute a and a 16.16 barycentric
\* coordinate b: the 32-bit product wraps
MulShr16(a, b) ==
    LET ah == a \div 65536  al == a % 65536
        bh == b \div 65536  bl == b % 65536
    IN  ((ah * bl) + (al * bh) + Mul16(al, bl)[1]) % 65536

(***************************************************************************)
(* Single-precision arithmetic of the depth interpolation.  A float is     *)
(* <<s, m, e>>: the number s * m * 2^e with s in {1, -1} and m < 2^24.     *)
(***************************************************************************)
\* the number of bits of x >= 0
BitLen(x) == CHOOSE k \in 0..31 : (k = 31 \/ x < 2^k) /\ (k = 0 \/ x >= 2^(k - 1))

\* the float nearest to s * (hi * 2^24 + lo) * 2^e, ties to even (lo < 2^24):
\* of the n bits of hi and the 24 of lo the leading 24 are kept
RoundFloat(s, hi, lo, e) ==
    LET Rounded(n, mant, rem, half) ==
            IF n > 0 /\ (rem > half \/ (rem = half /\ mant % 2 = 1))
            THEN (IF mant + 1 = 16777216 THEN <<s, 8388608, e + n + 1>>
                  ELSE <<s, mant + 1, e + n>>)
            ELSE <<s, mant, e + n>>
        Keep(n) ==
            IF n = 0 THEN Rounded(n, lo, 0, 1)
            ELSE IF n <= 24
            THEN Rounded(n, (hi * (2^(24 - n))) + (lo \div (2^n)), lo % (2^n), 2^(n - 1))
            ELSE Rounded(n, hi \div (2^(n - 24)), ((hi % (2^(n - 24))) * 16777216) + lo,
                         (2^(n - 25)) * 16777216)
    IN  Keep(BitLen(hi))

\* a * b in float: the 48-bit product of the 12-bit halves, rounded
FloatMul(a, b) ==
    LET mid == ((a[2] \div 4096) * (b[2] % 4096)) + ((a[2] % 4096) * (b[2] \div 4096))
        low == ((mid % 4096) * 4096) + ((a[2] % 4096) * (b[2] % 4096))
    IN  RoundFloat(a[1] * b[1],
                   ((a[2] \div 4096) * (b[2] \div 4096)) + (mid \div 4096) + (low \div 16777216),
                   low % 16777216, a[3] + b[3])

\* the same float with 2^23 <= m
Normal(a) ==
    IF a[2] = 0 THEN <<1, 0, 0>>
    ELSE <<a[1], a[2] * (2^(24 - BitLen(a[2]))), a[3] - (24 - BitLen(a[2]))>>

\* a + b for floats with 2^23 <= m, or zero; hl is the m of the one with the
\* larger exponent shifted left by the difference d of the exponents
RECURSIVE AddNormal(_, _)
AddNormal(a, b) ==
    LET d == a[3] - b[3]
        hl == IF d >= 24 THEN <<a[2] * (2^(d - 24)), 0>>
              ELSE <<a[2] \div (2^(24 - d)), (a[2] % (2^(24 - d))) * (2^d)>>
        Sum(h, l) ==
            IF a[1] = b[1]
            THEN RoundFloat(a[1], h + ((l + b[2]) \div 16777216), (l + b[2]) % 16777216, b[3])
            ELSE RoundFloat(a[1], IF l < b[2] THEN h - 1 ELSE h,
                            IF l < b[2] THEN (l + 16777216) - b[2] ELSE l - b[2], b[3])
    IN  IF a[2] = 0 THEN b
        ELSE IF b[2] = 0 THEN a
        ELSE IF d < 0 THEN AddNormal(b, a)
        ELSE IF d > 25 THEN a
        ELSE IF a[1] # b[1] /\ d = 0
        THEN (IF a[2] >= b[2] THEN <<a[1], a[2] - b[2], a[3]>>
              ELSE <<b[1], b[2] - a[2], a[3]>>)
        ELSE Sum(hl[1], hl[2])

\* x + y in float
FloatAdd(x, y) == AddNormal(Normal(x), Normal(y))

\* (float) of an int or uint32_t n
IntToFloat(n) ==
    RoundFloat(IF n < 0 THEN 0 - 1 ELSE 1, Abs(n) \div 16777216, Abs(n) % 16777216, 0)

\* (float) of an int64_t held as a word pair
Int64ToFloat(w) ==
    LET mag == IF w[1] < 0 THEN WNorm(<<0 - w[1], 0 - w[2]>>) ELSE w
    IN  RoundFloat(IF w[1] < 0 THEN 0 - 1 ELSE 1, mag[1] \div 256,
                   ((mag[1] % 256) * 65536) + mag[2], 0)

\* (int64_t) of a float, as a word pair: toward zero
FloatToInt64(f) ==
    LET Signed(mag) == IF f[1] < 0 THEN WNorm(<<0 - mag[1], 0 - mag[2]>>) ELSE mag
        Truncated(m, e) ==
            IF e <= 0 - 25 THEN Signed(<<0, 0>>)
            ELSE IF e < 0 THEN Signed(WNorm(<<0, m \div (2^(0 - e))>>))
            ELSE IF e <= 16 THEN Signed(<<m \div (2^(16 - e)), (m % (2^(16 - e))) * (2^e)>>)
            ELSE Signed(<<m * (2^(e - 16)), 0>>)
    IN  Truncated(f[2], f[3])

\* #define _INV_65536 .00001525878f: the float 16777206 * 2^-40
_INV_65536 == <<1, 16777206, 0 - 40>>

\* the root q and the remainder r of the leading 6 * t bits of n * 4^k, a
\* number of 54 bits: the digit-by-digit square root, three bits of the root
\* at a time
RECURSIVE SqrtDigits(_, _, _)
SqrtDigits(n, k, t) ==
    LET qr == SqrtDigits(n, k, t - 1)
        low == 27 - (3 * t)
        rr == (64 * qr[2]) + (IF low >= k + 12 \/ low + 3 <= k THEN 0
                              ELSE IF low >= k THEN (n \div (4^(low - k))) % 64
                              ELSE (n * (4^(k - low))) % 64)
        d == CHOOSE i \in 0..7 :
                /\ i * ((16 * qr[1]) + i) <= rr
                /\ (i = 7 \/ (i + 1) * ((16 * qr[1]) + i + 1) > rr)
    IN  IF t = 0 THEN <<0, 0>> ELSE <<(8 * qr[1]) + d, rr - (d * ((16 * qr[1]) + d))>>

\* (float)sqrt(n * 2^(2 * e)) for an integer n, 0 < n < 2^24: 27 bits of the
\* root and a sticky bit, rounded
FloatSqrt(n, e) ==
    LET k == 27 - ((BitLen(n) + 1) \div 2)
        qr == SqrtDigits(n, k, 9)
        sticky == (2 * qr[1]) + (IF qr[2] = 0 THEN 0 ELSE 1)
    IN  RoundFloat(1, sticky \div 16777216, sticky % 16777216, (e - k) - 1)

\* seven more bits of the quotient qr[1], remainder qr[2], of a long
\* division by d < 2^24
DivDigits(d, qr) == <<(qr[1] * 128) + ((qr[2] * 128) \div d), (qr[2] * 128) % d>>

\* a / b in float, b not zero: 28 bits of the quotient of the mantissas and
\* a sticky bit, rounded
FloatDiv(a, b) ==
    LET x == Normal(a)
        y == Normal(b)
        qr == DivDigits(y[2], DivDigits(y[2], DivDigits(y[2], DivDigits(y[2],
                  <<x[2] \div y[2], x[2] % y[2]>>))))
        sticky == (2 * qr[1]) + (IF qr[2] = 0 THEN 0 ELSE 1)
    IN  IF x[2] = 0 THEN <<1, 0, 0>>
        ELSE RoundFloat(x[1] * y[1], sticky \div 16777216, sticky % 16777216,
                        (x[3] - y[3]) - 29)

\* (int) of a float that fits an int: toward zero
FloatToInt(f) ==
    IF f[3] >= 0 THEN f[1] * f[2] * (2^f[3])
    ELSE IF f[3] <= 0 - 25 THEN 0
    ELSE f[1] * (f[2] \div (2^(0 - f[3])))

\* terms[1] + ... + terms[n] in float, from the left
RECURSIVE FloatSum(_, _)
FloatSum(terms, n) ==
    IF n = 1 THEN terms[1] ELSE FloatAdd(FloatSum(terms, n - 1), terms[n])

\* z0 * flt_bary.x + z1 * flt_bary.y (+ z2 * flt_bary.z) converted to int64_t,
\* flt_bary the 16.16 coordinates times _INV_65536
InterpolateDepth(zs, bary) ==
    FloatToInt64(FloatSum([i \in 1..Len(zs) |->
                              FloatMul(Int64ToFloat(zs[i]),
                                       FloatMul(IntToFloat(bary[i]), _INV_65536))],
                          Len(zs)))

\* a * 65536 / d toward zero, for |a| < 2^23 and 0 < |d| < 2^23, by long
\* division
MulDiv16(a, d) ==
    LET m == Abs(a)
        n == Abs(d)
        q1 == (m * 256) \div n
        r1 == (m * 256) % n
        q == (q1 * 256) + ((r1 * 256) \div n)
    IN  IF (a < 0) # (d < 0) THEN 0 - q ELSE q

(***************************************************************************)
(* Depth values and the pixel writers of the fragment finalizer.           *)
(***************************************************************************)
\* _is_valid_depth on the front depth buffer of context c
_is_valid_depth(c, depth) ==
    IF c.db_type \in DepthFormats
    THEN WLe(Word(0, 0), depth) /\ WLe(depth, DepthMax(c.db_type))
    ELSE FALSE

\* What _convert_depth can return when db_type is neither depth format: no
\* return statement is reached and the caller reads an indeterminate int64_t.
\* A draw call picks one of these for each call.
IndeterminateDepths == {<<0, 0>>, <<0 - 1, 65535>>, <<32767, 65535>>}

\* _convert_depth(depth) for a float depth that is a number; g is the
\* indeterminate value
_convert_depth(c, depth, g) ==
    IF c.db_type \in DepthFormats THEN DepthProduct(c.db_type, depth) ELSE g

\* _get_depth(index): pixel `index' (from 0) of the front depth buffer
_get_depth(c, m, index) == m[c.db][index + 1]

\* memory after _plot_depth(index, depth): the conversion to uint16_t or
\* uint32_t keeps the low bits
_plot_depth(c, m, index, depth) ==
    IF c.db_type = BR_D16 THEN [m EXCEPT ![c.db][index + 1] = Word(0, depth[2])]
    ELSE IF c.db_type = BR_D32 THEN [m EXCEPT ![c.db][index + 1] = Word(depth[1] % 65536, depth[2])]
    ELSE m

\* the bytes of a stored 32-bit word, most significant first
Byte3(x) == x[1] \div 256
Byte2(x) == x[1] % 256
Byte1(x) == x[2] \div 256
Byte0(x) == x[2] % 256

\* (uint8_t)((component * scale) >> 16) of a 16.16 component
ToChannel(component, scale) == U8((component * scale) \div 65536)

\* #define _INV_255 .00392156862f, as a float
_INV_255 == <<1, 8421504, 0 - 31>>

\* float alpha = (float)a * _INV_255; float _1_minus_alpha = 1.0f - alpha;
\* uint8_t p = (src * alpha) + (dst * _1_minus_alpha): the products and the
\* sum are floats, and the sum is truncated
BlendChannel(src, dst, a) ==
    LET alpha == FloatMul(IntToFloat(a), _INV_255)
        _1_minus_alpha == FloatAdd(<<1, 1, 0>>, <<0 - 1, alpha[2], alpha[3]>>)
    IN  U8(FloatToInt(FloatAdd(FloatMul(IntToFloat(src), alpha),
                               FloatMul(IntToFloat(dst), _1_minus_alpha))))

\* the word _plot_pixel stores in a pixel holding dst_val, or dst_val when it
\* returns without storing
PlotValue(cb_type, rgba, blend, dst_val) ==
    LET r8 == ToChannel(rgba[1], 255)  g8 == ToChannel(rgba[2], 255)
        b8 == ToChannel(rgba[3], 255)  a8 == ToChannel(rgba[4], 255)
        r5 == ToChannel(rgba[1], 31)   g5 == ToChannel(rgba[2], 31)
        b5 == ToChannel(rgba[3], 31)
        r3 == ToChannel(rgba[1], 7)    g3 == ToChannel(rgba[2], 7)
        g2 == ToChannel(rgba[2], 3)    b2 == ToChannel(rgba[3], 3)
        \* the 16- and 8-bit formats under blending: an alpha test at one half
        Tested(v) == IF blend /\ rgba[4] < 32768 THEN dst_val ELSE v
        \* the 32-bit formats under blending; d is <<dst_r, dst_g, dst_b, dst_a>>
        Mixed(opaque, d, pack(_, _, _, _)) ==
            IF a8 = 255 THEN opaque
            ELSE IF a8 = 0 THEN dst_val
            ELSE pack(BlendChannel(r8, d[1], a8), BlendChannel(g8, d[2], a8),
                      BlendChannel(b8, d[3], a8), BlendChannel(a8, d[4], a8))
        RGB(r, g, b, a) == _BR_R8G8B8(r, g, b)
        BGR(r, g, b, a) == _BR_B8G8R8(r, g, b)
    IN  CASE cb_type = BR_R8G8B8 ->
               \* the destination channels are taken from r, g, b, not from dst_val
               IF ~blend THEN _BR_B8G8R8(r8, g8, b8)
               ELSE Mixed(_BR_R8G8B8(r8, g8, b8), <<0, 0, b8, 0>>, RGB)
          [] cb_type = BR_R8G8B8A8 ->
               IF ~blend THEN _BR_R8G8B8A8(r8, g8, b8, a8)
               ELSE Mixed(_BR_R8G8B8A8(r8, g8, b8, a8),
                          <<Byte3(dst_val), Byte2(dst_val), Byte1(dst_val), Byte0(dst_val)>>,
                          _BR_R8G8B8A8)
          [] cb_type = BR_B8G8R8 ->
               IF ~blend THEN _BR_B8G8R8(r8, g8, b8)
               ELSE Mixed(_BR_B8G8R8(r8, g8, b8), <<r8, 0, 0, 0>>, BGR)
          [] cb_type = BR_A8B8G8R8 ->
               IF ~blend THEN _BR_A8B8G8R8(r8, g8, b8, a8)
               ELSE Mixed(_BR_A8B8G8R8(r8, g8, b8, a8),
                          <<Byte0(dst_val), Byte1(dst_val), Byte2(dst_val), Byte3(dst_val)>>,
                          _BR_A8B8G8R8)
          [] cb_type = BR_R5G5B5 -> Tested(_BR_R5G5B5(r5, g5, b5))
          [] cb_type = BR_R5G5B5A1 -> Tested(_BR_R5G5B5A1(r5, g5, b5, 1))
          [] cb_type = BR_B5G5R5 -> Tested(_BR_B5G5R5(r5, g5, b5))
          [] cb_type = BR_A1B5G5R5 -> Tested(_BR_A1B5G5R5(r5, g5, b5, 1))
          [] cb_type = BR_R3G3B2 -> Tested(_BR_R3G3B2(r3, g3, b2))
          [] cb_type = BR_R3G2B2A1 -> Tested(_BR_R3G2B2A1(r3, g2, b2, 1))
          [] cb_type = BR_B2G3R3 -> Tested(_BR_B2G3R3(r3, g3, b2))
          [] cb_type = BR_A1B2G2R3 -> Tested(_BR_A1B2G2R3(r3, g2, b2, 1))
          [] OTHER -> dst_val

\* _plot_pixel writing through the back set (for comparison)
PlotPixelBack(c, m, index, rgba, blend) ==
    IF c.cb2 # NULL /\ index < c.rb2_width * c.rb2_height
    THEN [m EXCEPT ![c.cb2][index + 1] = PlotValue(c.cb2_type, rgba, blend, @)]
    ELSE m

\* memory after _plot_pixel(index, rgba, blend) on the front colour buffer
_plot_pixel(c, m, index, rgba, blend) ==
    [m EXCEPT ![c.cb][index + 1] = PlotValue(c.cb_type, rgba, blend, @)]

(***************************************************************************)
(* Textures.  A texture is an array the application owns: of uint32_t,     *)
(* uint16_t or uint8_t texels when it is sampled as `compressed', and of   *)
(* bytes, three or four to a texel, when it is not.  In `mem' every        *)
(* element of the array is a word <<hi, lo>>.                              *)
(***************************************************************************)
\* (x & mask) >> s for the mask of w ones from bit s on, the field inside one
\* half of the word x
Bits(x, s, w) ==
    IF s >= 16 THEN (x[1] \div (2^(s - 16))) % (2^w) ELSE (x[2] \div (2^s)) % (2^w)

\* the macros _BR_<format>_R(x), _G(x), _B(x) and _A(x)
DecodeR(format, x) ==
    CASE format = BR_R8G8B8A8 -> Bits(x, 24, 8)
      [] format = BR_R8G8B8 -> Bits(x, 16, 8)
      [] format = BR_A8B8G8R8 -> Bits(x, 0, 8)
      [] format = BR_B8G8R8 -> Bits(x, 0, 8)
      [] format = BR_R5G5B5A1 -> Bits(x, 11, 5)
      [] format = BR_R5G5B5 -> Bits(x, 10, 5)
      [] format = BR_A1B5G5R5 -> Bits(x, 0, 5)
      [] format = BR_B5G5R5 -> Bits(x, 0, 5)
      [] format = BR_R3G2B2A1 -> Bits(x, 5, 3)
      [] format = BR_R3G3B2 -> Bits(x, 5, 3)
      [] format = BR_A1B2G2R3 -> Bits(x, 0, 3)
      [] format = BR_B2G3R3 -> Bits(x, 0, 3)
DecodeG(format, x) ==
    CASE format = BR_R8G8B8A8 -> Bits(x, 16, 8)
      [] format = BR_R8G8B8 -> Bits(x, 8, 8)
      [] format = BR_A8B8G8R8 -> Bits(x, 8, 8)
      [] format = BR_B8G8R8 -> Bits(x, 8, 8)
      [] format = BR_R5G5B5A1 -> Bits(x, 6, 5)
      [] format = BR_R5G5B5 -> Bits(x, 5, 5)
      [] format = BR_A1B5G5R5 -> Bits(x, 5, 5)
      [] format = BR_B5G5R5 -> Bits(x, 5, 5)
      [] format = BR_R3G2B2A1 -> Bits(x, 3, 2)
      [] format = BR_R3G3B2 -> Bits(x, 2, 3)
      [] format = BR_A1B2G2R3 -> Bits(x, 3, 2)
      [] format = BR_B2G3R3 -> Bits(x, 3, 3)
DecodeB(format, x) ==
    CASE format = BR_R8G8B8A8 -> Bits(x, 8, 8)
      [] format = BR_R8G8B8 -> Bits(x, 0, 8)
      [] format = BR_A8B8G8R8 -> Bits(x, 16, 8)
      [] format = BR_B8G8R8 -> Bits(x, 16, 8)
      [] format = BR_R5G5B5A1 -> Bits(x, 1, 5)
      [] format = BR_R5G5B5 -> Bits(x, 0, 5)
      [] format = BR_A1B5G5R5 -> Bits(x, 10, 5)
      [] format = BR_B5G5R5 -> Bits(x, 10, 5)
      [] format = BR_R3G2B2A1 -> Bits(x, 1, 2)
      [] format = BR_R3G3B2 -> Bits(x, 0, 2)
      [] format = BR_A1B2G2R3 -> Bits(x, 5, 2)
      [] format = BR_B2G3R3 -> Bits(x, 6, 2)
DecodeA(format, x) ==
    CASE format = BR_R8G8B8A8 -> Bits(x, 0, 8)
      [] format = BR_A8B8G8R8 -> Bits(x, 24, 8)
      [] format = BR_R5G5B5A1 -> Bits(x, 0, 1)
      [] format = BR_A1B5G5R5 -> Bits(x, 15, 1)
      [] format = BR_R3G2B2A1 -> Bits(x, 0, 1)
      [] format = BR_A1B2G2R3 -> Bits(x, 7, 1)
      [] OTHER -> 0

\* the macro _BR_<format>(r, g, b, a) on the channels t; a format without
\* alpha takes three
Encode(format, t) ==
    CASE format = BR_R8G8B8A8 -> _BR_R8G8B8A8(t[1], t[2], t[3], t[4])
      [] format = BR_R8G8B8 -> _BR_R8G8B8(t[1], t[2], t[3])
      [] format = BR_A8B8G8R8 -> _BR_A8B8G8R8(t[1], t[2], t[3], t[4])
      [] format = BR_B8G8R8 -> _BR_B8G8R8(t[1], t[2], t[3])
      [] format = BR_R5G5B5A1 -> _BR_R5G5B5A1(t[1], t[2], t[3], t[4])
      [] format = BR_R5G5B5 -> _BR_R5G5B5(t[1], t[2], t[3])
      [] format = BR_A1B5G5R5 -> _BR_A1B5G5R5(t[1], t[2], t[3], t[4])
      [] format = BR_B5G5R5 -> _BR_B5G5R5(t[1], t[2], t[3])
      [] format = BR_R3G2B2A1 -> _BR_R3G2B2A1(t[1], t[2], t[3], t[4])
      [] format = BR_R3G3B2 -> _BR_R3G3B2(t[1], t[2], t[3])
      [] format = BR_A1B2G2R3 -> _BR_A1B2G2R3(t[1], t[2], t[3], t[4])
      [] format = BR_B2G3R3 -> _BR_B2G3R3(t[1], t[2], t[3])

\* the formats with an alpha channel: those of a four-byte texel in
\* _get_texel
AlphaFormats == {BR_R8G8B8A8, BR_A8B8G8R8, BR_R5G5B5A1, BR_A1B5G5R5, BR_R3G2B2A1, BR_A1B2G2R3}
\* the formats whose first channel in memory is red
RedFirst == {BR_R8G8B8A8, BR_R8G8B8, BR_R5G5B5A1, BR_R5G5B5, BR_R3G2B2A1, BR_R3G3B2}

\* #define _INV_31 .03225806451f, _INV_7 .14285714285f and
\* _INV_3 .33333333333f, as floats
_INV_31 == <<1, 8659208, 0 - 28>>
_INV_7 == <<1, 9586981, 0 - 26>>
_INV_3 == <<1, 11184811, 0 - 25>>

\* the reciprocals _get_texel multiplies the red, green and blue of a texel
\* of the format by
Reciprocals(format) ==
    IF format \in {BR_R8G8B8A8, BR_R8G8B8, BR_A8B8G8R8, BR_B8G8R8} THEN <<_INV_255, _INV_255, _INV_255>>
    ELSE IF format \in {BR_R5G5B5A1, BR_R5G5B5, BR_A1B5G5R5, BR_B5G5R5} THEN <<_INV_31, _INV_31, _INV_31>>
    ELSE IF format \in {BR_R3G2B2A1, BR_A1B2G2R3} THEN <<_INV_7, _INV_3, _INV_3>>
    ELSE <<_INV_7, _INV_7, _INV_3>>

\* the colour _get_texel makes of the channels t of a texel: each of red,
\* green and blue times its reciprocal; alpha times _INV_255 in the 8-bit
\* formats, as it is (or, off the packed path, whether it is not zero) in
\* the others with alpha, and 1 without
TexelColor(format, t, packed) ==
    [k \in 1..4 |->
        IF k < 4 THEN FloatMul(IntToFloat(t[k]), Reciprocals(format)[k])
        ELSE IF format \in {BR_R8G8B8A8, BR_A8B8G8R8} THEN FloatMul(IntToFloat(t[4]), _INV_255)
        ELSE IF format \notin AlphaFormats THEN IntToFloat(1)
        ELSE IF packed THEN IntToFloat(t[4])
        ELSE IntToFloat(IF t[4] # 0 THEN 1 ELSE 0)]

\* the format whose macros the packed path of _get_texel decodes a texel of
\* the format with
SamplerMacros(format) ==
    IF format = BR_B5G5R5 THEN BR_A1B5G5R5
    ELSE IF format = BR_A1B2G2R3 THEN BR_R3G2B2A1
    ELSE IF format = BR_B2G3R3 THEN BR_R3G3B2
    ELSE format

\* the channels the packed path decodes from the texel x
PackedChannels(format, x) ==
    <<DecodeR(SamplerMacros(format), x), DecodeG(SamplerMacros(format), x),
      DecodeB(SamplerMacros(format), x), DecodeA(SamplerMacros(format), x)>>

\* the channels of the texel whose bytes start at element i of the byte
\* array tex: texel[0], texel[1], .. in the order the format names them
ByteChannels(format, tex, i) ==
    LET n == IF format \in AlphaFormats THEN 4 ELSE 3
        texel == [k \in 1..n |-> tex[i + k][2]]
    IN  IF format \in RedFirst THEN <<texel[1], texel[2], texel[3], IF n = 4 THEN texel[4] ELSE 0>>
        ELSE <<texel[n], texel[n - 1], texel[n - 2], IF n = 4 THEN texel[1] ELSE 0>>

\* if(x >= width) x = width - 1; if(x < 0) x = 0;  with an int x and a
\* uint32_t width: x is converted to uint32_t for the first comparison, and
\* of a negative x that is 2^31 or more
ClampTexel(x, width) ==
    LET clamped == IF x < 0 \/ x >= width THEN width - 1 ELSE x
    IN  IF clamped < 0 THEN 0 ELSE clamped

\* _get_texel(x, y, col, texture, format, width, height, compressed) with a
\* context current and a pixel format: the texel it reads and the colour it
\* stores to *col
_get_texel(x, y, texture, format, width, height, compressed) ==
    LET tx == ClampTexel(x, width)
        ty == ClampTexel(y, height)
        index == (ty * width) + tx
    IN  [kind |-> "texel", x |-> tx, y |-> ty, depth |-> <<0, 0>>,
         rgba |-> TexelColor(format,
                             IF compressed THEN PackedChannels(format, texture[index + 1])
                             ELSE ByteChannels(format, texture,
                                               index * (IF format \in AlphaFormats THEN 4 ELSE 3)),
                             compressed)]

(***************************************************************************)
(* Shader passes.  A shader is called with a block of attribute values, an *)
(* array of the tags of the attributes in the block, and their count.  A   *)
(* block is the sequence of the values stored in it, each with the offset  *)
(* it is stored at; pointers are 8 bytes.                                  *)
(***************************************************************************)
NoAttributes == [format |-> << >>, data |-> << >>, offset |-> 0]

\* the attribute stored whatever its flag is (for comparison)
ShaderAttributeAlways(st, flag, tag, size, value) ==
    [format |-> Append(st.format, tag),
     data |-> Append(st.data, [offset |-> st.offset, value |-> value]),
     offset |-> st.offset + size]

\* if(flag) { format[i] = tag; *(data + offset) = value; offset += size; i += 1; }
ShaderAttribute(st, flag, tag, size, value) ==
    IF flag
    THEN [format |-> Append(st.format, tag),
          data |-> Append(st.data, [offset |-> st.offset, value |-> value]),
          offset |-> st.offset + size]
    ELSE st

\* the call _vertex_pass makes of the vertex shader: its three arguments
_vertex_pass(c, vertex) ==
    LET attrib_count == (IF c.sh_vtype THEN 1 ELSE 0) + (IF c.sh_vposition THEN 1 ELSE 0)
                        + (IF c.sh_vcolor THEN 1 ELSE 0) + (IF c.sh_vnormals THEN 1 ELSE 0)
                        + (IF c.sh_vtcoords THEN 1 ELSE 0)
        a1 == ShaderAttribute(NoAttributes, c.sh_vtype, BR_VERTEX_TYPE, 4, vertex.type)
        a2 == ShaderAttribute(a1, c.sh_vposition, BR_VERTEX_POSITION, 16, vertex.position)
        a3 == ShaderAttribute(a2, c.sh_vcolor, BR_VERTEX_COLOR, 8, vertex.color)
        a4 == ShaderAttribute(a3, c.sh_vnormals, BR_VERTEX_NORMALS, 8, vertex.normals)
        a5 == ShaderAttribute(a4, c.sh_vtcoords, BR_VERTEX_TEXTURE_COORDINATES, 8, vertex.tcoords)
    IN  IF attrib_count # 0
        THEN [data |-> a5.data, format |-> a5.format, attrib_count |-> attrib_count]
        ELSE [data |-> NULL, format |-> NULL, attrib_count |-> 0]

\* the fragment pass object after _init_fragment: the tags, their count, and
\* whether a block was allocated (pass_data is not assigned otherwise)
_init_fragment(c) ==
    LET Count(flag) == IF flag THEN 1 ELSE 0
        Tag(attribs, flag, tag) == IF flag THEN Append(attribs, tag) ELSE attribs
        data_size == (16 * Count(c.sh_prim_color)) + (16 * Count(c.sh_tex_color))
                     + (16 * Count(c.sh_frag_color)) + (12 * Count(c.sh_bary_linear))
                     + (12 * Count(c.sh_bary_persp)) + (8 * Count(c.sh_fposition))
                     + (4 * Count(c.sh_fdepth))
    IN  [pass_attrib_count |->
             Count(c.sh_prim_color) + Count(c.sh_tex_color) + Count(c.sh_frag_color)
             + Count(c.sh_bary_linear) + Count(c.sh_bary_persp) + Count(c.sh_fposition)
             + Count(c.sh_fdepth),
         pass_attribs |->
             Tag(Tag(Tag(Tag(Tag(Tag(Tag(<< >>, c.sh_prim_color, BR_PRIMITIVE_COLOR),
                                     c.sh_tex_color, BR_TEXTURE_COLOR),
                                 c.sh_frag_color, BR_FRAGMENT_COLOR),
                             c.sh_bary_linear, BR_BARY_LINEAR),
                         c.sh_bary_persp, BR_BARY_PERSPECTIVE),
                     c.sh_fposition, BR_FRAGMENT_POSITION),
                 c.sh_fdepth, BR_FRAGMENT_DEPTH),
         allocated |-> data_size # 0]

\* the call _fragment_pass makes of the fragment shader for the pass object
\* pass and the fragment frag: its first three arguments
_fragment_pass(c, pass, frag) ==
    LET a1 == ShaderAttribute(NoAttributes, c.sh_prim_color, BR_PRIMITIVE_COLOR, 16,
                              frag.primitive_color)
        a2 == ShaderAttribute(a1, c.sh_tex_color, BR_TEXTURE_COLOR, 16, frag.texture_color)
        a3 == ShaderAttribute(a2, c.sh_frag_color, BR_FRAGMENT_COLOR, 16, frag.color)
        a4 == ShaderAttribute(a3, c.sh_bary_linear, BR_BARY_LINEAR, 12, frag.linear_bary)
        a5 == ShaderAttribute(a4, c.sh_bary_persp, BR_BARY_PERSPECTIVE, 12, frag.bary)
        a6 == ShaderAttribute(a5, c.sh_fposition, BR_FRAGMENT_POSITION, 8, frag.position)
        a7 == ShaderAttribute(a6, c.sh_fdepth, BR_FRAGMENT_DEPTH, 4, frag.depth)
    IN  IF pass.pass_attrib_count # 0
        THEN [data |-> a7.data, format |-> pass.pass_attribs,
              attrib_count |-> pass.pass_attrib_count]
        ELSE [data |-> NULL, format |-> NULL, attrib_count |-> 0]

(***************************************************************************)
(* The fragment finalizer: the depth test, the colour write and the depth  *)
(* write that end _raster_point_fragment, the line loop and the triangle   *)
(* scanline loops, and between the test and the writes the texture sample  *)
(* and the call of the fragment shader.                                    *)
(***************************************************************************)
WLt(x, y) == WLe(x, y) /\ x # y

\* the depth test discards the fragment (written stricter, for comparison)
DepthRejectsEqual(c, depth, dst) == ~_is_valid_depth(c, depth) \/ ~WLt(depth, dst)

\* the depth test discarding only the depths outside the range of the format
\* (for comparison)
DepthRejectsInvalid(c, depth, dst) == ~_is_valid_depth(c, depth)

\* if(!_is_valid_depth(depth) || depth > dst) return;
DepthRejects(c, depth, dst) == ~_is_valid_depth(c, depth) \/ ~WLe(depth, dst)

\* bool textured = (_brcontext->texture && params->complete_texture_unit) in
\* _raster_line and _raster_triangle; _raster_point_fragment samples nothing
Textured(c, frag) ==
    frag.kind \in {"line", "triangle"} /\ c.texture /\ c.texture_unit \in DOMAIN c.textures

\* the colour of the texel the fragment samples, as 16.16: with every texture
\* coordinate (0, 0) and a texture of one row (see Drawable) tx and ty are 0,
\* and rgba.x = secondary.x * 65536.0f
TexelRgba(c, m) ==
    LET unit == c.textures[c.texture_unit]
        secondary == _get_texel(0, 0, m[unit.data], unit.format, unit.width, unit.height,
                                unit.compressed).rgba
    IN  [k \in 1..4 |-> FloatToInt(FloatMul(secondary[k], <<1, 1, 16>>))]

\* the fragment shaders of the application, by address: the one at 3 sets
\* *discard, any other returns opaque green whatever it is passed; color is
\* what rgba.x = color.x * 65536.0f makes of the colour returned
FragmentShader(shader) ==
    IF shader = 3 THEN [color |-> <<0, 0, 0, 0>>, discard |-> TRUE]
    ELSE [color |-> <<0, 65536, 0, 65536>>, discard |-> FALSE]

\* `rgba' when the fragment shading operations are through
ShadedRgba(c, m, frag) ==
    IF c.fshader # NULL THEN FragmentShader(c.fshader).color
    ELSE IF Textured(c, frag) THEN TexelRgba(c, m)
    ELSE frag.rgba

\* the tail of the per-fragment code with the writes ahead of the test of
\* frag_pass.discard (for comparison)
FinalizeFragmentLate(c, m, frag) ==
    LET pixel_index == frag.y * c.rb_width + frag.x
        Deepened(colored) ==
            IF c.depth_write /\ c.db # NULL /\ _is_valid_depth(c, frag.depth)
            THEN _plot_depth(c, colored, pixel_index, frag.depth)
            ELSE colored
    IN  IF c.depth_test /\ c.db # NULL
           /\ DepthRejects(c, frag.depth, _get_depth(c, m, pixel_index)) THEN m
        ELSE Deepened(IF c.cb # NULL
                      THEN _plot_pixel(c, m, pixel_index, ShadedRgba(c, m, frag), c.blend)
                      ELSE m)

\* memory after one fragment inside the render target went through the tail
\* of the per-fragment code
FinalizeFragment(c, m, frag) ==
    LET test_depth == c.depth_test /\ c.db # NULL
        plot_color == c.cb # NULL
        plot_depth == c.depth_write /\ c.db # NULL
        pixel_index == frag.y * c.rb_width + frag.x
        Deepened(colored) ==
            IF plot_depth /\ _is_valid_depth(c, frag.depth)
            THEN _plot_depth(c, colored, pixel_index, frag.depth)
            ELSE colored
    IN  IF test_depth /\ DepthRejects(c, frag.depth, _get_depth(c, m, pixel_index)) THEN m
        ELSE IF c.fshader # NULL /\ FragmentShader(c.fshader).discard THEN m
        ELSE Deepened(IF plot_color
                      THEN _plot_pixel(c, m, pixel_index, ShadedRgba(c, m, frag), c.blend)
                      ELSE m)

\* the steps the tail of the per-fragment code takes for the fragment, in the
\* order it takes them
FragmentSteps(c, m, frag) ==
    LET test_depth == c.depth_test /\ c.db # NULL
        pixel_index == frag.y * c.rb_width + frag.x
        Step(cond, name) == IF cond THEN <<name>> ELSE << >>
        Writes ==
            Step(c.cb # NULL, "color write")
            \o Step(c.depth_write /\ c.db # NULL /\ _is_valid_depth(c, frag.depth), "depth write")
        Shading ==
            Step(Textured(c, frag), "texture sample")
            \o Step(c.fshader # NULL, "fragment shader")
            \o (IF c.fshader # NULL /\ FragmentShader(c.fshader).discard THEN << >> ELSE Writes)
    IN  Step(test_depth, "depth test")
        \o (IF test_depth /\ DepthRejects(c, frag.depth, _get_depth(c, m, pixel_index))
            THEN << >> ELSE Shading)

\* the test of the index against the number of pixels of the render target
\* in place of the test of x against the width (for comparison)
InTargetIndex(c, x, y) ==
    ~(x < 0 \/ y < 0 \/ (y * c.rb_width) + x >= c.rb_width * c.rb_height)

\* the fragment test that opens the per-fragment code: inside the render target
InTarget(c, x, y) == ~(x < 0 \/ x >= c.rb_width \/ y < 0 \/ y >= c.rb_height)

\* _raster_point_fragment writing through the back set (for comparison)
RasterPointFragmentBack(c, m, frag) ==
    LET index == frag.y * c.rb2_width + frag.x
    IN  IF c.cb2 # NULL /\ frag.x >= 0 /\ frag.x < c.rb2_width
           /\ frag.y >= 0 /\ frag.y < c.rb2_height
        THEN [m EXCEPT ![c.cb2][index + 1] = PlotValue(c.cb2_type, frag.rgba, c.blend, @)]
        ELSE m

\* memory after _raster_point_fragment(x, y, point, frag_pass)
_raster_point_fragment(c, m, frag) ==
    IF ~InTarget(c, frag.x, frag.y) THEN m ELSE FinalizeFragment(c, m, frag)

\* memory after one pass of the body of the loop of _raster_line at (x, y)
LineFragment(c, m, frag) ==
    IF InTarget(c, frag.x, frag.y) THEN FinalizeFragment(c, m, frag) ELSE m

\* memory after the per-fragment code of the primitive the fragment is of; the
\* scanline loops of _raster_triangle only visit pixels of the render target
PerFragment(c, m, frag) ==
    CASE frag.kind = "point" -> _raster_point_fragment(c, m, frag)
      [] frag.kind = "line" -> LineFragment(c, m, frag)
      [] OTHER -> FinalizeFragment(c, m, frag)

\* the most passes outside the render target that one step of a draw call
\* in progress goes through before the pass it ends with
MaxSkip == 32

\* the number of passes the next step of the draw call goes through: the
\* leading ones outside the render target, at most MaxSkip, and one more
StepLen(c, frags) ==
    LET Outside(i) == ~InTarget(c, frags[i].x, frags[i].y)
        k == CHOOSE n \in 0..MaxSkip :
                /\ n <= Len(frags)
                /\ \A i \in 1..n : Outside(i)
                /\ (n = MaxSkip \/ n = Len(frags) \/ ~Outside(n + 1))
    IN  IF k < Len(frags) THEN k + 1 ELSE k

\* memory after the first n passes
RECURSIVE RunFragments(_, _, _, _)
RunFragments(c, m, frags, n) ==
    IF n = 0 THEN m ELSE PerFragment(c, RunFragments(c, m, frags, n - 1), frags[n])

\* the step that ends with pass n of the draw call in progress, m0 the memory
\* the passes before it left: `last' records the fragment of pass n and what
\* its pixel held before it
FinalizeStep(c, n, m0) ==
    /\ mem' = PerFragment(c, m0, pending[n])
    /\ last' = [last EXCEPT
                  !.frag = pending[n],
                  !.dst_color = IF InTarget(c, pending[n].x, pending[n].y) /\ c.cb # NULL
                                THEN m0[c.cb][(pending[n].y * c.rb_width) + pending[n].x + 1]
                                ELSE <<0, 0>>,
                  !.dst_depth = IF InTarget(c, pending[n].x, pending[n].y) /\ c.db # NULL
                                THEN m0[c.db][(pending[n].y * c.rb_width) + pending[n].x + 1]
                                ELSE <<0, 0>>]
    /\ pending' = SubSeq(pending, n + 1, Len(pending))

\* The draw call in progress goes on: it runs its per-fragment code up to and
\* including the next fragment inside the render target.
Finalize ==
    /\ fault = "none"
    /\ pending # << >>
    /\ FinalizeStep(ctx[cur], StepLen(ctx[cur], pending),
                    RunFragments(ctx[cur], mem, pending, StepLen(ctx[cur], pending) - 1))
    /\ UNCHANGED <<cur, alive, ctx, fault>>

(***************************************************************************)
(* Floats of the vertex pipeline are integers scaled by FOne; the inputs   *)
(* are chosen so that every product and quotient below is exact.           *)
(***************************************************************************)
FMul(a, b) == (a * b) \div FOne
FDiv(a, b) == (a * FOne) \div b
\* conversion of a float to an integer type: toward zero
Trunc(f) == IF f >= 0 THEN f \div FOne ELSE 0 - ((0 - f) \div FOne)
\* (uint32_t)(f * 65536.0f)
Fixed16(f) == f * (65536 \div FOne)
Fixed16x4(rgba) == <<Fixed16(rgba[1]), Fixed16(rgba[2]), Fixed16(rgba[3]), Fixed16(rgba[4])>>

(***************************************************************************)
(* Points.                                                                 *)
(***************************************************************************)
\* the pixels x0..x1 of row y, left to right
Row(x0, x1, y) == [i \in 1..(x1 - x0 + 1) |-> <<x0 + i - 1, y>>]

\* for(int x = point_x - r; x <= point_x + r; x += 1) with r unsigned: the
\* comparison is unsigned, so a start below zero ends the loop at once unless
\* the end is below zero too
CentreRow(point_x, point_y, r) ==
    IF point_x - r >= 0 \/ point_x + r < 0 THEN Row(point_x - r, point_x + r, point_y)
    ELSE << >>

\* the while loop of _raster_point from the state (f, dx, dy, x2, y2)
RECURSIVE CircleRows(_, _, _, _, _, _, _)
CircleRows(point_x, point_y, f, dx, dy, x2, y2) ==
    IF ~(x2 < y2) THEN << >>
    ELSE LET y2a == IF f >= 0 THEN y2 - 1 ELSE y2
             dya == IF f >= 0 THEN dy + 2 ELSE dy
             fa  == IF f >= 0 THEN f + dya ELSE f
             x2b == x2 + 1
             dxb == dx + 2
             fb  == fa + dxb + 1
         IN  Row(point_x - x2b, point_x + x2b, point_y + y2a)
             \o Row(point_x - x2b, point_x + x2b, point_y - y2a)
             \o Row(point_x - y2a, point_x + y2a, point_y + x2b)
             \o Row(point_x - y2a, point_x + y2a, point_y - x2b)
             \o CircleRows(point_x, point_y, fb, dxb, dya, x2b, y2a)

\* the calls of _raster_point_fragment that _raster_point makes, in order
_raster_point(c, x, y, z, rgba, r) ==
    LET Fragments(all) ==
            [i \in 1..Len(all) |->
                [kind |-> "point", x |-> all[i][1], y |-> all[i][2], depth |-> z, rgba |-> rgba]]
        Pixels(point_x, point_y) ==
            Fragments(<<<<point_x, point_y + r>>, <<point_x, point_y - r>>>>
                      \o CentreRow(point_x, point_y, r)
                      \o CircleRows(point_x, point_y, 1 - r, 0, 0 - 2 * r, 0, r))
    IN  IF r <= 0 THEN << >> ELSE Pixels(Trunc(x), Trunc(y))

\* the perspective division of a position <<x, y, z, w>>
PerspDiv(c, pos) ==
    IF c.persp_div /\ pos[4] # 0 /\ pos[4] # FOne
    THEN LET inv_w == FDiv(FOne, pos[4])
         IN  <<FMul(pos[1], inv_w), FMul(pos[2], inv_w), FMul(pos[3], inv_w), pos[4]>>
    ELSE pos

\* pos.z *= 0.5f + 0.5f
ScaleZ(c, z) == IF c.scale_z THEN FMul(z, (FOne \div 2) + (FOne \div 2)) ELSE z

\* -w <= (x, y, z) <= w
InClipVolume(pos) ==
    ~(0 - pos[4] > pos[1] \/ pos[1] > pos[4] \/ 0 - pos[4] > pos[2] \/ pos[2] > pos[4]
      \/ 0 - pos[4] > pos[3] \/ pos[3] > pos[4])

\* raster-space x and y of a position in normalized device coordinates
RasterX(c, x) == LET half_width == (c.rb_width * FOne) \div 2 IN half_width + FMul(x, half_width)
RasterY(c, y) == LET half_height == (c.rb_height * FOne) \div 2 IN half_height + FMul(0 - y, half_height)

\* the fragments of _process_point for position pos and float colour rgba
_process_point(c, pos, rgba, g) ==
    IF c.clip /\ ~InClipVolume(pos) THEN << >>
    ELSE LET ndc == PerspDiv(c, pos)
         IN  _raster_point(c, RasterX(c, ndc[1]), RasterY(c, ndc[2]),
                           _convert_depth(c, ScaleZ(c, ndc[3]), g),
                           Fixed16x4(rgba),
                           Trunc(c.point_radius + (FOne \div 2)))

(***************************************************************************)
(* Lines.  A raster line is [x0, y0, x1, y1: raster floats; z0, z1: depths;*)
(* w0, w1: clip-space floats; rgba0, rgba1: 16.16 colours].                *)
(***************************************************************************)
\* the longest line loop this model follows
MaxLineSteps == 6

\* in_frustum with the sign of w left out (for comparison)
in_frustumEitherSide(v) ==
    (Abs(v[1]) <= Abs(v[4])) /\ (Abs(v[2]) <= Abs(v[4])) /\ (Abs(v[3]) <= Abs(v[4]))

\* bool in_frustum(brvec4 v)
in_frustum(v) ==
    (0 - v[4] <= v[1]) /\ (v[1] <= v[4]) /\ (0 - v[4] <= v[2]) /\ (v[2] <= v[4])
    /\ (0 - v[4] <= v[3]) /\ (v[3] <= v[4])

\* uint8_t get_outcode(brvec4 v): LEFT_BIT 1, RIGHT_BIT 2, BOTTOM_BIT 4,
\* TOP_BIT 8, NEAR_BIT 16, FAR_BIT 32
get_outcode(v) ==
    (IF v[1] < 0 - v[4] THEN 1 ELSE 0) + (IF v[1] > v[4] THEN 2 ELSE 0)
    + (IF v[2] < 0 - v[4] THEN 4 ELSE 0) + (IF v[2] > v[4] THEN 8 ELSE 0)
    + (IF v[3] < 0 - v[4] THEN 16 ELSE 0) + (IF v[3] > v[4] THEN 32 ELSE 0)

\* clip_line(a, b) where it returns at once: both ends outside, or both inside
\* (Drawable keeps the draws of this model to these)
clip_line(a, b) == <<a, b>>

\* _fdiv(1.0f, w)
InvW(w) == IF w = 0 THEN 0 ELSE FDiv(FOne, w)

\* a 16.16 barycentric coordinate b after perspective correction in a line:
\* bary *= inv_w; bary *= _fdiv(65536.0f, sum), sum the inv_w-weighted sum
PerspBary(b, inv_w, sum) ==
    IF sum = 0 THEN 0
    ELSE MulDiv16(TruncDiv(b * inv_w, FOne), sum)

\* what one pass of the loop of _raster_line at (x, y), p passes in, works on
LineCandidate(c, l, length, x, y, p) ==
    LET bcx == FloatMul(FloatAdd(length, IntToFloat(0 - p)), FloatDiv(<<1, 1, 0>>, length))
        lbx == FloatToInt(FloatMul(bcx, <<1, 1, 16>>))
        lby == FloatToInt(FloatMul(FloatAdd(<<1, 1, 0>>, <<0 - bcx[1], bcx[2], bcx[3]>>),
                                   <<1, 1, 16>>))
        inv_v0_w == InvW(l.w0)
        inv_v1_w == InvW(l.w1)
        sum == TruncDiv((lbx * inv_v0_w) + (lby * inv_v1_w), FOne)
        Shaded(bx, by) ==
            [kind |-> "line", x |-> x, y |-> y,
             depth |-> InterpolateDepth(<<l.z0, l.z1>>, <<bx, by>>),
             rgba |-> [k \in 1..4 |-> MulShr16(l.rgba0[k], bx) + MulShr16(l.rgba1[k], by)]]
    IN  Shaded(IF c.persp_corr THEN PerspBary(lbx, inv_v0_w, sum) ELSE lbx,
               IF c.persp_corr THEN PerspBary(lby, inv_v1_w, sum) ELSE lby)

\* the passes of the loop of _raster_line from (x, y) with error term err
RECURSIVE LineLoop(_, _, _, _, _, _, _, _)
LineLoop(c, l, length, x, y, err, p, fuel) ==
    LET dx == Abs(l.x1 - l.x0)
        dy == Abs(l.y1 - l.y0)
        sx == IF l.x0 < l.x1 THEN 1 ELSE 0 - 1
        sy == IF l.y0 < l.y1 THEN 1 ELSE 0 - 1
        lengthp == ISqrt((((x * 256) - l.x0) * ((x * 256) - l.x0))
                         + (((y * 256) - l.y0) * ((y * 256) - l.y0))) \div 256
        stepx == err > 0 - dx
        stepy == err < dy
    IN  IF lengthp >= FloatToInt(length) \/ fuel = 0 THEN << >>
        ELSE <<LineCandidate(c, l, length, x, y, p)>>
             \o LineLoop(c, l, length,
                         IF stepx THEN x + sx ELSE x, IF stepy THEN y + sy ELSE y,
                         (err - (IF stepx THEN dy ELSE 0)) + (IF stepy THEN dx ELSE 0),
                         p + 1, fuel - 1)

\* the passes of the loop of _raster_line, in order; the raster floats are
\* 24.8 numbers in this model already, so the sum of the squares is an
\* integer number of 2^-16
_raster_line(c, l) ==
    LET n == ((l.x0 - l.x1) * (l.x0 - l.x1)) + ((l.y0 - l.y1) * (l.y0 - l.y1))
        dx == Abs(l.x1 - l.x0)
        dy == Abs(l.y1 - l.y0)
    IN  IF n = 0 THEN << >>
        ELSE LineLoop(c, l, FloatSqrt(n, 0 - 8), Trunc(l.x0), Trunc(l.y0),
                      TruncDiv(IF dx > dy THEN dx ELSE 0 - dy, 2), 0, MaxLineSteps)

\* { 65536, 65536, 65536, 65536 }
White == <<65536, 65536, 65536, 65536>>

\* the point of radius 2 and depth 0 that _process_line and _process_triangle
\* raster at each vertex
VertexMark(c, x, y) == _raster_point(c, x, y, <<0, 0>>, White, 2)

\* the per-fragment passes of _process_line, in order
_process_line(c, v0, v1, rgba0, rgba1, g) ==
    LET ends == IF c.clip THEN clip_line(v0, v1) ELSE <<v0, v1>>
        n0 == PerspDiv(c, ends[1])
        n1 == PerspDiv(c, ends[2])
        l == [x0 |-> RasterX(c, n0[1]), y0 |-> RasterY(c, n0[2]),
              x1 |-> RasterX(c, n1[1]), y1 |-> RasterY(c, n1[2]),
              z0 |-> _convert_depth(c, ScaleZ(c, n0[3]), g),
              z1 |-> _convert_depth(c, ScaleZ(c, n1[3]), g),
              w0 |-> n0[4], w1 |-> n1[4],
              rgba0 |-> Fixed16x4(rgba0), rgba1 |-> Fixed16x4(rgba1)]
    IN  IF c.clip /\ ~in_frustum(v0) /\ ~in_frustum(v1) THEN << >>
        ELSE VertexMark(c, RasterX(c, n0[1]), RasterY(c, n0[2]))
             \o VertexMark(c, RasterX(c, n1[1]), RasterY(c, n1[2]))
             \o _raster_line(c, l)

(***************************************************************************)
(* Triangles.  A raster triangle is [x0..y2: raster floats; o0, o1, o2: the *)
(* 24.8 positions orig_v0..2; bary0..2; z0..2: depths; w0..2: clip-space   *)
(* floats; rgba0..2: 16.16 colours; draw_top].                             *)
(***************************************************************************)
\* the sequences of seqs one after another
RECURSIVE Concat(_)
Concat(seqs) == IF seqs = << >> THEN << >> ELSE Head(seqs) \o Concat(Tail(seqs))

\* v >> 8 of a signed int
Shr8(v) == v \div 256

\* the float barycentric coordinates, times 65536, of the 24.8 offset (cx, cy)
\* from orig_v0: <<x, y, z>>
BaryAt(t, cx, cy) ==
    LET ax == Shr8(t.o1[1]) - Shr8(t.o0[1])
        ay == Shr8(t.o1[2]) - Shr8(t.o0[2])
        bx == Shr8(t.o2[1]) - Shr8(t.o0[1])
        by == Shr8(t.o2[2]) - Shr8(t.o0[2])
        \* n * den with den = _fdiv(256.0f, area)
        Den(n, area) == IF area = 0 THEN 0 ELSE TruncDiv(n * 256, area)
        Coordinates(y, z) == <<(65536 - y) - z, y, z>>
    IN  Coordinates(Den((cx * by) - (bx * cy), (ax * by) - (bx * ay)),
                    Den((ax * cy) - (cx * ay), (ax * by) - (bx * ay)))

Negative(bary) == bary[1] < 0 \/ bary[2] < 0 \/ bary[3] < 0

\* the while loop that looks for valid coordinates from 24.8 position x in
\* steps of `step', giving up (<< >>) once x has passed `end'
RECURSIVE BarySearch(_, _, _, _, _)
BarySearch(t, x, cy, step, end) ==
    LET Found(bary) ==
            IF Negative(bary) THEN BarySearch(t, x + step, cy, step, end) ELSE bary
    IN  IF (IF step > 0 THEN x + step > end ELSE x + step < end) THEN << >>
        ELSE Found(BaryAt(t, x - t.o0[1], cy))

\* bx * bary0 + by * bary1 + bz * bary2
Remap(t, bary) ==
    [k \in 1..3 |-> (bary[1] * t.bary0[k]) + (bary[2] * t.bary1[k]) + (bary[3] * t.bary2[k])]

\* _fdiv(1.0f, fabs(w))
InvAbsW(w) == InvW(Abs(w))

\* the coordinates the fragment is shaded with: perspective-corrected when
\* persp_corr is set
TriangleBary(c, t, linear_bary) ==
    LET Corrected(inv_w, sum) == [k \in 1..3 |-> PerspBary(linear_bary[k], inv_w[k], sum)]
        Sum(inv_w) ==
            TruncDiv((linear_bary[1] * inv_w[1]) + (linear_bary[2] * inv_w[2])
                     + (linear_bary[3] * inv_w[3]), FOne)
    IN  IF ~c.persp_corr THEN linear_bary
        ELSE Corrected(<<InvAbsW(t.w0), InvAbsW(t.w1), InvAbsW(t.w2)>>,
                       Sum(<<InvAbsW(t.w0), InvAbsW(t.w1), InvAbsW(t.w2)>>))

\* the fragment of the scanline loop at (x, y), shaded with coordinates bary
TriangleFragment(t, x, y, bary) ==
    [kind |-> "triangle", x |-> x, y |-> y,
     depth |-> InterpolateDepth(<<t.z0, t.z1, t.z2>>, bary),
     rgba |-> [k \in 1..4 |-> MulShr16(t.rgba0[k], bary[1]) + MulShr16(t.rgba1[k], bary[2])
                               + MulShr16(t.rgba2[k], bary[3])]]

\* what the scanline at row y between the 24.8 edges cx1 <= cx2 starts with:
\* its first column, the number of pixels the loop draws, bary_s1 and inc;
\* << >> when it is left before the loop
ScanlineSpan(c, t, y, cx1, cx2) ==
    LET sx1a == Shr8(cx1 - 128)
        sx2 == Shr8(cx2 + 128)
        sx1 == IF sx1a < 0 THEN 0 ELSE sx1a
        cy == (y * 256) - t.o0[2]
        \* the coordinates at one end: those of `first', or when they are not
        \* valid what the while loop from `from' finds
        End(first, from, step, end) ==
            IF Negative(first) THEN BarySearch(t, from, cy, step, end) ELSE first
        \* the loop leaves at the first x at or past the right edge
        Drawn(x) == x < c.rb_width /\ x * 256 < cx2
        Stepped(bary_s1, bary_s2) ==
            [sx1 |-> sx1,
             count |-> Cardinality({x \in sx1..sx2 : \A w \in sx1..x : Drawn(w)}),
             bary_s1 |-> bary_s1,
             inc |-> [k \in 1..3 |-> TruncDiv(bary_s2[k] - bary_s1[k], (sx2 - sx1) + 1)]]
        Ends(s1, s2) ==
            IF sx1a > sx2 \/ sx1 >= c.rb_width \/ s1 = << >> \/ s2 = << >> THEN << >>
            ELSE Stepped(Remap(t, s1), Remap(t, s2))
    IN  Ends(End(BaryAt(t, (IF sx1 # sx2 THEN (sx1 * 256) + 256 ELSE cx1) - t.o0[1], cy),
                 (sx1 * 256) + 384, 128, cx2),
             End(BaryAt(t, (IF sx1 # sx2 THEN (sx2 * 256) - 256 ELSE cx2) - t.o0[1], cy),
                 (sx2 * 256) - 384, 0 - 128, cx1))

\* the fragments of the loop of a scanline that starts with span
ScanlinePixels(c, t, y, span) ==
    IF span = << >> THEN << >>
    ELSE [i \in 1..span.count |->
             TriangleFragment(t, (span.sx1 + i) - 1, y,
                              TriangleBary(c, t, [k \in 1..3 |->
                                  span.bary_s1[k] + ((i - 1) * span.inc[k])]))]

\* the fragments of one scanline at row y between the 24.8 edges curfx1, curfx2
Scanline(c, t, y, curfx1, curfx2) ==
    ScanlinePixels(c, t, y,
                   ScanlineSpan(c, t, y, IF curfx1 > curfx2 THEN curfx2 ELSE curfx1,
                                IF curfx1 > curfx2 THEN curfx1 ELSE curfx2))

\* the flat-bottom loop from row y with edges curfx1, curfx2
RECURSIVE FlatBottomRows(_, _, _, _, _, _, _, _)
FlatBottomRows(c, t, y, y1_int, curfx1, curfx2, invslope1, invslope2) ==
    IF y > y1_int THEN << >>
    ELSE IF y >= 0 /\ y >= c.rb_height THEN << >>
    ELSE (IF y < 0 THEN << >> ELSE Scanline(c, t, y, curfx1, curfx2))
         \o FlatBottomRows(c, t, y + 1, y1_int, curfx1 + invslope1, curfx2 + invslope2,
                           invslope1, invslope2)

\* the flat-top loop from row y, upwards
RECURSIVE FlatTopRows(_, _, _, _, _, _, _, _)
FlatTopRows(c, t, y, y0_int, curfx1, curfx2, invslope1, invslope2) ==
    IF ~(y > y0_int) \/ y < 0 THEN << >>
    ELSE (IF y >= c.rb_height THEN << >> ELSE Scanline(c, t, y, curfx1, curfx2))
         \o FlatTopRows(c, t, y - 1, y0_int, curfx1 - invslope1, curfx2 - invslope2,
                        invslope1, invslope2)

\* the fragments of _raster_triangle, in order
_raster_triangle(c, t) ==
    (IF t.y1 = t.y2 /\ t.x1 # t.x2
     THEN FlatBottomRows(c, t, Shr8(t.y0) + 1, Shr8(t.y1), t.x0, t.x0,
                         _idiv(t.o1[1] - t.o0[1], Shr8(t.o1[2] - t.o0[2])),
                         _idiv(t.o2[1] - t.o0[1], Shr8(t.o2[2] - t.o0[2])))
     ELSE << >>)
    \o
    (IF t.y0 = t.y1 /\ t.x0 # t.x1
     THEN FlatTopRows(c, t, Shr8(t.y2), Shr8(t.y0) - (IF t.draw_top THEN 1 ELSE 0), t.x2, t.x2,
                      _idiv(t.o2[1] - t.o0[1], Shr8(t.o2[2] - t.o0[2])),
                      _idiv(t.o2[1] - t.o1[1], Shr8(t.o2[2] - t.o1[2])))
     ELSE << >>)

\* the triangle with vertices i and j exchanged: position, bary and orig_v
SwapVertices12(t) ==
    [t EXCEPT !.x1 = t.x2, !.x2 = t.x1, !.y1 = t.y2, !.y2 = t.y1,
              !.bary1 = t.bary2, !.bary2 = t.bary1, !.o1 = t.o2, !.o2 = t.o1]
SwapVertices01(t) ==
    [t EXCEPT !.x0 = t.x1, !.x1 = t.x0, !.y0 = t.y1, !.y1 = t.y0,
              !.bary0 = t.bary1, !.bary1 = t.bary0, !.o0 = t.o1, !.o1 = t.o0]

\* the vertices ordered as _split_raster_triangle orders them: three
\* conditional exchanges
SortVertices(triangle) ==
    LET Third(t) == IF t.y2 < t.y1 THEN SwapVertices12(t) ELSE t
        Second(t) == Third(IF t.y1 < t.y0 THEN SwapVertices01(t) ELSE t)
    IN  Second(IF triangle.y2 < triangle.y1 THEN SwapVertices12(triangle) ELSE triangle)

\* the triangles _split_raster_triangle hands to _raster_triangle, in order
SplitTriangle(t) ==
    LET Split(vx) ==
            <<[t EXCEPT !.x2 = vx, !.y2 = t.y1, !.draw_top = FALSE],
              [t EXCEPT !.x0 = t.x1, !.y0 = t.y1, !.x1 = vx, !.draw_top = FALSE]>>
    IN  IF t.y1 = t.y2 THEN <<[t EXCEPT !.draw_top = FALSE]>>
        ELSE IF t.y0 = t.y1 THEN <<[t EXCEPT !.draw_top = TRUE]>>
        ELSE Split(t.x0 + FMul(FDiv(t.y1 - t.y0, t.y2 - t.y0), t.x2 - t.x0))

\* the fragments of _split_raster_triangle, in order
_split_raster_triangle(c, triangle) ==
    LET parts == SplitTriangle(SortVertices(triangle))
    IN  Concat([i \in 1..Len(parts) |-> _raster_triangle(c, parts[i])])

\* the triangle winds clockwise: n.z > 0 for n the cross product of v1 - v0
\* and v2 - v0 in clip-space x and y
Clockwise(v0, v1, v2) ==
    FMul(v1[1] - v0[1], v2[2] - v0[2]) - FMul(v1[2] - v0[2], v2[1] - v0[1]) > 0

Culled(c, v0, v1, v2) ==
    c.cull /\ (IF Clockwise(v0, v1, v2) THEN c.cull_winding = BR_CW
                ELSE c.cull_winding = BR_CCW)

\* the per-fragment passes of _process_triangle for a triangle of a draw call
\* (parent is NULL), in order; one that needs clipping is not followed
_process_triangle(c, v0, v1, v2, rgba0, rgba1, rgba2, g) ==
    LET n0 == PerspDiv(c, v0)
        n1 == PerspDiv(c, v1)
        n2 == PerspDiv(c, v2)
        p0 == <<RasterX(c, n0[1]), RasterY(c, n0[2])>>
        p1 == <<RasterX(c, n1[1]), RasterY(c, n1[2])>>
        p2 == <<RasterX(c, n2[1]), RasterY(c, n2[2])>>
        Marks(a, b) == VertexMark(c, a[1], a[2]) \o VertexMark(c, b[1], b[2])
    IN  IF Culled(c, v0, v1, v2) THEN << >>
        ELSE IF c.clip /\ ~in_frustum(v0) /\ ~in_frustum(v1) /\ ~in_frustum(v2) THEN << >>
        ELSE Marks(p0, p1) \o VertexMark(c, p2[1], p2[2])
             \o _split_raster_triangle(c,
                   [x0 |-> p0[1], y0 |-> p0[2], x1 |-> p1[1], y1 |-> p1[2],
                    x2 |-> p2[1], y2 |-> p2[2], o0 |-> p0, o1 |-> p1, o2 |-> p2,
                    bary0 |-> <<1, 0, 0>>, bary1 |-> <<0, 1, 0>>, bary2 |-> <<0, 0, 1>>,
                    z0 |-> _convert_depth(c, ScaleZ(c, n0[3]), g),
                    z1 |-> _convert_depth(c, ScaleZ(c, n1[3]), g),
                    z2 |-> _convert_depth(c, ScaleZ(c, n2[3]), g),
                    w0 |-> n0[4], w1 |-> n1[4], w2 |-> n2[4],
                    rgba0 |-> Fixed16x4(rgba0), rgba1 |-> Fixed16x4(rgba1),
                    rgba2 |-> Fixed16x4(rgba2), draw_top |-> FALSE])

(***************************************************************************)
(* Vertex arrays and the draw calls.  The application's arrays are         *)
(* sequences of floats; `array' names one, and offsets and strides are in  *)
(* bytes.                                                                  *)
(***************************************************************************)
\* three vertices of seven floats each, x y z r g b a: the red triangle
\* (-1, 1), (1, 1), (-1, -1) at depth z
RedTriangle(z) ==
    <<0 - FOne, FOne, z, FOne, 0, 0, FOne,
      FOne, FOne, z, FOne, 0, 0, FOne,
      0 - FOne, 0 - FOne, z, FOne, 0, 0, FOne>>

\* the arrays the application owns: the red triangle at depths 1/2, 1 and -1,
\* the same triangle moved outside the clip volume, (array 5) the red
\* triangle at half the size: (-1/2, 1/2), (1/2, 1/2), (-1/2, -1/2), and
\* (array 6) one red vertex at (0, 0), (array 7) one vertex at (0, 0) of
\* the colour (1, 1, 1, 1/2), and (array 8) three red vertices of eight floats
\* each, x y z w r g b a: (1/2, -1/2, -1/2, -1), (-1/2, -1/2, -1/2, -1) and
\* (1/2, 1/2, -1/2, -1), (array 9) the red triangle at depth 0, (array 10)
\* the two red vertices (-3/2, 0) and (3/2, 0) at depth 1/2, and (array 11)
\* the red triangle at three times the size: (-3, 3), (3, 3), (-3, -3)
ArrayIds == 1..11
Arrays ==
    [a \in ArrayIds |->
        CASE a = 1 -> RedTriangle(FOne \div 2)
          [] a = 2 -> RedTriangle(FOne)
          [] a = 3 -> RedTriangle(0 - FOne)
          [] a = 5 -> [i \in 1..21 |-> IF i % 7 \in {1, 2} THEN RedTriangle(FOne \div 2)[i] \div 2
                                       ELSE RedTriangle(FOne \div 2)[i]]
          [] a = 6 -> [i \in 1..7 |-> IF i \in {1, 2} THEN 0 ELSE RedTriangle(FOne \div 2)[i]]
          [] a = 7 -> <<0, 0, FOne \div 2, FOne, FOne, FOne, FOne \div 2>>
          [] a = 9 -> RedTriangle(0)
          [] a = 10 -> <<0 - ((3 * FOne) \div 2), 0, FOne \div 2, FOne, 0, 0, FOne,
                         (3 * FOne) \div 2, 0, FOne \div 2, FOne, 0, 0, FOne>>
          [] a = 11 -> [i \in 1..21 |-> IF i % 7 \in {1, 2} THEN RedTriangle(FOne \div 2)[i] * 3
                                        ELSE RedTriangle(FOne \div 2)[i]]
          [] a = 8 -> LET h == FOne \div 2
                      IN  <<h, 0 - h, 0 - h, 0 - FOne, FOne, 0, 0, FOne,
                            0 - h, 0 - h, 0 - h, 0 - FOne, FOne, 0, 0, FOne,
                            h, h, 0 - h, 0 - FOne, FOne, 0, 0, FOne>>
          [] OTHER -> [i \in 1..21 |-> IF i % 7 \in {1, 2} THEN RedTriangle(0)[i] + (4 * FOne)
                                       ELSE RedTriangle(0)[i]]]

\* *(float*)((void*)array + offset)
LoadFloat(array, offset) == Arrays[array][(offset \div 4) + 1]

\* the bytes [offset, offset + 4 * count) are floats of the array
Readable(array, offset, count) ==
    offset >= 0 /\ offset % 4 = 0 /\ offset + (4 * count) <= 4 * Len(Arrays[array])

\* the vertex loaded for element e: position, colour and texture coordinates
LoadVertex(c, array, e) ==
    LET vo == c.vertex_offset + (c.vertex_stride * e)
        co == c.color_offset + (c.color_stride * e)
        to == c.tcoord_offset + (c.tcoord_stride * e)
        F(o, k) == LoadFloat(array, o + (4 * k))
    IN  [pos |-> IF c.vertex_array /\ c.vertex_count = 2 THEN <<F(vo, 0), F(vo, 1), 0, FOne>>
                 ELSE IF c.vertex_array /\ c.vertex_count = 3
                      THEN <<F(vo, 0), F(vo, 1), F(vo, 2), FOne>>
                 ELSE IF c.vertex_array /\ c.vertex_count = 4
                      THEN <<F(vo, 0), F(vo, 1), F(vo, 2), F(vo, 3)>>
                 ELSE <<0, 0, 0, FOne>>,
         rgba |-> IF c.color_array /\ c.color_count = 3
                  THEN <<F(co, 0), F(co, 1), F(co, 2), FOne>>
                  ELSE IF c.color_array /\ c.color_count = 4
                       THEN <<F(co, 0), F(co, 1), F(co, 2), F(co, 3)>>
                  ELSE <<0, 0, 0, FOne>>,
         tcoord |-> IF c.tcoord_array THEN <<F(to, 0), F(to, 1)>> ELSE <<0, 0>>]

\* every float the draw call loads for element e is a float of the array
VertexReadable(c, array, e) ==
    /\ c.vertex_array /\ c.vertex_count \in 2..4
          => Readable(array, c.vertex_offset + (c.vertex_stride * e), c.vertex_count)
    /\ c.color_array /\ c.color_count \in 3..4
          => Readable(array, c.color_offset + (c.color_stride * e), c.color_count)
    /\ c.normal_array => Readable(array, c.normal_offset + (c.normal_stride * e), 3)
    /\ c.tcoord_array => Readable(array, c.tcoord_offset + (c.tcoord_stride * e), 2)

\* the assembly, were a triangle filled in every polygon mode
AssembleFilled(c, ptype, vs, g) ==
    LET \* the vertices of a primitive, and what the polygon mode makes of it
        n == IF ptype = BR_POINTS THEN 1 ELSE IF ptype = BR_LINES THEN 2 ELSE 3
        mode == IF ptype = BR_POINTS THEN BR_POINT
                ELSE IF ptype = BR_LINES /\ c.poly_mode = BR_FILL THEN BR_LINE
                ELSE IF ptype = BR_LINES THEN c.poly_mode
                ELSE BR_FILL
        \* vertex j of primitive k, and the vertex the line from vertex j ends at
        V(k, j) == vs[((k - 1) * n) + j]
        W(k, j) == vs[((k - 1) * n) + (j % n) + 1]
    IN  IF ptype \notin {BR_POINTS, BR_LINES, BR_TRIANGLES} THEN << >>
        ELSE Concat([k \in 1..(Len(vs) \div n) |->
                IF mode = BR_FILL
                THEN _process_triangle(c, V(k, 1).pos, V(k, 2).pos, V(k, 3).pos,
                                       V(k, 1).rgba, V(k, 2).rgba, V(k, 3).rgba, g)
                ELSE IF mode = BR_LINE
                THEN Concat([j \in 1..(IF n = 2 THEN 1 ELSE 3) |->
                        _process_line(c, V(k, j).pos, W(k, j).pos, V(k, j).rgba, W(k, j).rgba, g)])
                ELSE IF mode = BR_POINT
                THEN Concat([j \in 1..n |-> _process_point(c, V(k, j).pos, V(k, j).rgba, g)])
                ELSE << >>])

\* the per-fragment passes of the primitives assembled from vertices vs, in
\* order: the body of the loop of brDrawArray and brDrawElements from
\* `if(ptype == BR_TRIANGLES && v == 2)' on
Assemble(c, ptype, vs, g) ==
    LET \* the vertices of a primitive, and what the polygon mode makes of it
        n == IF ptype = BR_POINTS THEN 1 ELSE IF ptype = BR_LINES THEN 2 ELSE 3
        mode == IF ptype = BR_POINTS THEN BR_POINT
                ELSE IF ptype = BR_LINES /\ c.poly_mode = BR_FILL THEN BR_LINE
                ELSE c.poly_mode
        \* vertex j of primitive k, and the vertex the line from vertex j ends at
        V(k, j) == vs[((k - 1) * n) + j]
        W(k, j) == vs[((k - 1) * n) + (j % n) + 1]
    IN  IF ptype \notin {BR_POINTS, BR_LINES, BR_TRIANGLES} THEN << >>
        ELSE Concat([k \in 1..(Len(vs) \div n) |->
                IF mode = BR_FILL
                THEN _process_triangle(c, V(k, 1).pos, V(k, 2).pos, V(k, 3).pos,
                                       V(k, 1).rgba, V(k, 2).rgba, V(k, 3).rgba, g)
                ELSE IF mode = BR_LINE
                THEN Concat([j \in 1..(IF n = 2 THEN 1 ELSE 3) |->
                        _process_line(c, V(k, j).pos, W(k, j).pos, V(k, j).rgba, W(k, j).rgba, g)])
                ELSE IF mode = BR_POINT
                THEN Concat([j \in 1..n |-> _process_point(c, V(k, j).pos, V(k, j).rgba, g)])
                ELSE << >>])

\* no primitive of the call has vertices on both sides of the clip volume
\* while clipping is on (the clipper is outside this model)
Unclipped(c, ptype, vs) ==
    LET n == IF ptype = BR_TRIANGLES THEN 3 ELSE IF ptype = BR_LINES THEN 2 ELSE 1
    IN  c.clip => \A k \in 1..(Len(vs) \div n) :
                    \A i, j \in ((n * (k - 1)) + 1)..(n * k) :
                        in_frustum(vs[i].pos) = in_frustum(vs[j].pos)

\* the vertex shader of the application: it returns the position it is
\* passed, and (0, 0, 0, 1) when BR_VERTEX_POSITION is not passed
VertexShader(shader, call) ==
    LET at == {k \in 1..call.attrib_count : call.format[k] = BR_VERTEX_POSITION}
    IN  IF at = {} THEN <<0, 0, 0, FOne>> ELSE call.data[CHOOSE k \in at : TRUE].value

\* the vertices after `position = _vertex_pass(&vertex)': the position the
\* vertex shader returned when one is bound
PassedVertices(c, ptype, vs) ==
    LET type == IF ptype = BR_TRIANGLES THEN BR_TRIANGLE
                ELSE IF ptype = BR_LINES THEN BR_LINE ELSE BR_POINT
        Out(v) == VertexShader(c.vshader,
                               _vertex_pass(c, [type |-> type, position |-> v.pos,
                                                color |-> 4116, normals |-> 4104,
                                                tcoords |-> 4096]))
    IN  IF c.vshader = NULL THEN vs
        ELSE [i \in 1..Len(vs) |-> [vs[i] EXCEPT !.pos = Out(vs[i])]]

\* the texture coordinates of every vertex are (0, 0) and the texture of the
\* active unit, when one is sampled, has one row: every fragment samples the
\* texel (0, 0)
TexelsAtOrigin(c) ==
    (c.texture /\ c.texture_unit \in DOMAIN c.textures)
        => (~c.tcoord_array /\ c.textures[c.texture_unit].height = 1)

\* The scratch memory of a draw call.  An event is a call of malloc or calloc
\* (alloc) or of free, and the block it returns or is passed.
\* what a rasterizer does with its fragment pass object frag_pass, `raster'
\* naming the call: _init_fragment when a fragment shader is bound, and at the
\* end, unless it has returned before (early), the two calls of free.
\* pass_data is not assigned when no fragment attribute is enabled: it then
\* reads as NULL or, with stale, as whatever the stack held.
FragmentPassScratch(c, raster, early, stale) ==
    LET pass == _init_fragment(c)
        Event(op, name) == [op |-> op, block |-> <<raster, name>>]
        Release ==
            (IF pass.allocated THEN <<Event("free", "pass_data")>>
             ELSE IF stale THEN <<Event("free", "uninitialised")>> ELSE << >>)
            \o <<Event("free", "pass_attribs")>>
    IN  IF c.fshader = NULL THEN << >>
        ELSE <<Event("alloc", "pass_attribs")>>
             \o (IF pass.allocated THEN <<Event("alloc", "pass_data")>> ELSE << >>)
             \o (IF early THEN << >> ELSE Release)

\* the calls of the rasterizers that processing the primitive of vertices V
\* makes, in order: for each whether it returns early, which _raster_point
\* does on `if(r <= 0) return;' and _raster_line on
\* `if(length == 0.0f) return;'
RasterCalls(c, mode, V) ==
    LET P(j) == <<RasterX(c, PerspDiv(c, V[j].pos)[1]), RasterY(c, PerspDiv(c, V[j].pos)[2])>>
        W(j) == (j % Len(V)) + 1
        Parts == SplitTriangle(SortVertices(
                     [x0 |-> P(1)[1], y0 |-> P(1)[2], x1 |-> P(2)[1], y1 |-> P(2)[2],
                      x2 |-> P(3)[1], y2 |-> P(3)[2], o0 |-> P(1), o1 |-> P(2), o2 |-> P(3),
                      bary0 |-> <<1, 0, 0>>, bary1 |-> <<0, 1, 0>>, bary2 |-> <<0, 0, 1>>,
                      draw_top |-> FALSE]))
    IN  IF mode = BR_FILL
        THEN IF Culled(c, V[1].pos, V[2].pos, V[3].pos)
                \/ (c.clip /\ \A j \in 1..3 : ~in_frustum(V[j].pos))
             THEN << >>
             ELSE <<FALSE, FALSE, FALSE>> \o [i \in 1..Len(Parts) |-> FALSE]
        ELSE IF mode = BR_LINE
        THEN Concat([j \in 1..(IF Len(V) = 2 THEN 1 ELSE 3) |->
                 IF c.clip /\ ~in_frustum(V[j].pos) /\ ~in_frustum(V[W(j)].pos) THEN << >>
                 ELSE <<FALSE, FALSE, P(j) = P(W(j))>>])
        ELSE IF mode = BR_POINT
        THEN Concat([j \in 1..Len(V) |->
                 IF c.clip /\ ~InClipVolume(V[j].pos) THEN << >>
                 ELSE <<Trunc(c.point_radius + (FOne \div 2)) <= 0>>])
        ELSE << >>

\* the events of the draw call of the vertices vs (as loaded), in order: for
\* each primitive the blocks `data' of _vertex_pass, one for each vertex and
\* none of them freed, and then the events of its rasterizers
DrawScratch(c, ptype, vs, stale) ==
    LET n == IF ptype = BR_POINTS THEN 1 ELSE IF ptype = BR_LINES THEN 2 ELSE 3
        mode == IF ptype = BR_POINTS THEN BR_POINT
                ELSE IF ptype = BR_LINES /\ c.poly_mode = BR_FILL THEN BR_LINE
                ELSE c.poly_mode
        passed == PassedVertices(c, ptype, vs)
        Calls(k) == RasterCalls(c, mode, SubSeq(passed, ((k - 1) * n) + 1, k * n))
        VertexPasses(k) ==
            IF c.vshader = NULL THEN << >>
            ELSE [j \in 1..n |-> [op |-> "alloc", block |-> <<k, j, "data">>]]
    IN  IF ptype \notin {BR_POINTS, BR_LINES, BR_TRIANGLES} THEN << >>
        ELSE Concat([k \in 1..(Len(vs) \div n) |->
                 VertexPasses(k)
                 \o Concat([i \in 1..Len(Calls(k)) |->
                        FragmentPassScratch(c, <<k, i>>, Calls(k)[i], stale)])])

\* the draw call frees a pointer that was never assigned
UninitialisedFreed(events) ==
    \E i \in 1..Len(events) : events[i].op = "free" /\ events[i].block[2] = "uninitialised"
FreesUninitialised(c, ptype, vs) ==
    /\ c.fshader # NULL
    /\ ~_init_fragment(c).allocated
    /\ UninitialisedFreed(DrawScratch(c, ptype, vs, TRUE))

\* what the application guarantees of a draw call of elements `elems': the
\* loads stay inside the array
Drawable(c, ptype, array, elems) ==
    /\ \A i \in 1..Len(elems) : VertexReadable(c, array, elems[i])
    /\ Unclipped(c, ptype,
                 PassedVertices(c, ptype, [i \in 1..Len(elems) |-> LoadVertex(c, array, elems[i])]))
    /\ TexelsAtOrigin(c)

\* the draw call starts: it works out its per-fragment passes, which Finalize
\* then runs one by one.  With no context the first read of _brcontext is a
\* NULL dereference; free of a pointer that was never assigned is undefined.
Draw(op, args, ptype, array, elems, derefs) ==
    /\ Running
    /\ IF cur = NULL
       THEN /\ IF derefs THEN fault' \in {"crashed", "undefined"} ELSE fault' = fault
            /\ pending' = pending
       ELSE /\ Drawable(ctx[cur], ptype, array, elems)
            /\ \E g \in IF ctx[cur].db_type \in DepthFormats THEN {<<0, 0>>}
                         ELSE IndeterminateDepths :
                   pending' = Assemble(ctx[cur], ptype,
                                       PassedVertices(ctx[cur], ptype,
                                           [i \in 1..Len(elems) |->
                                               LoadVertex(ctx[cur], array, elems[i])]),
                                       g)
            /\ fault' \in IF FreesUninitialised(ctx[cur], ptype,
                                                 [i \in 1..Len(elems) |->
                                                     LoadVertex(ctx[cur], array, elems[i])])
                           THEN {fault, "crashed", "undefined"}
                           ELSE {fault}
    /\ last' = Call(op, args)
    /\ UNCHANGED <<cur, alive, ctx, mem>>

\* brDrawArray reads _brcontext->vertex_offset before its loop
brDrawArray(ptype, indices, array) ==
    Draw("brDrawArray", <<ptype, indices, array>>, ptype, array,
         [i \in 1..indices |-> i - 1], TRUE)

\* brDrawElements reads _brcontext first inside its loop
brDrawElements(ptype, indices, array, elements) ==
    /\ indices <= Len(elements)
    /\ Draw("brDrawElements", <<ptype, indices, array, elements>>, ptype, array,
            SubSeq(elements, 1, indices), indices > 0)

(***************************************************************************)
(* The vertex layout setters.  None of them tests _brcontext.              *)
(***************************************************************************)
\* the setter stores into the context, or dereferences NULL
Layout(op, args, returns, c) ==
    /\ Running
    /\ IF returns THEN UNCHANGED <<ctx, fault>>
       ELSE IF cur = NULL THEN fault' \in {"crashed", "undefined"} /\ UNCHANGED ctx
       ELSE ctx' = [ctx EXCEPT ![cur] = c] /\ UNCHANGED fault
    /\ last' = Call(op, args)
    /\ UNCHANGED <<cur, alive, mem, pending>>

brVertexPointer(count, offset, stride) ==
    Layout("brVertexPointer", <<count, offset, stride>>, count > 4 \/ count < 2,
           [Current EXCEPT !.vertex_count = count, !.vertex_offset = offset,
                           !.vertex_stride = stride])

brColorPointer(count, offset, stride) ==
    Layout("brColorPointer", <<count, offset, stride>>, count # 3 /\ count # 4,
           [Current EXCEPT !.color_count = count, !.color_offset = offset,
                           !.color_stride = stride])

brNormalPointer(offset, stride) ==
    Layout("brNormalPointer", <<offset, stride>>, FALSE,
           [Current EXCEPT !.normal_offset = offset, !.normal_stride = stride])

brTexCoordPointer(offset, stride) ==
    Layout("brTexCoordPointer", <<offset, stride>>, FALSE,
           [Current EXCEPT !.tcoord_offset = offset, !.tcoord_stride = stride])

(***************************************************************************)
(* Value setters.                                                          *)
(***************************************************************************)
\* if(x < 0.0f) x = 0.0f; if(x > 1.0f) x = 1.0f;  (a NaN fails both tests)
Clamp01(x) ==
    LET x1 == IF FLt(x, 0) THEN 0 ELSE x
    IN  IF FGt(x1, FOne) THEN FOne ELSE x1

brClearColor(r, g, b, a) ==
    /\ Running
    /\ ctx' = IF cur = NULL THEN ctx
              ELSE [ctx EXCEPT ![cur].clear_color = <<Clamp01(r), Clamp01(g), Clamp01(b), Clamp01(a)>>]
    /\ last' = Call("brClearColor", <<r, g, b, a>>)
    /\ UNCHANGED <<cur, alive, mem, fault, pending>>

\* if(depth > 1.0f) depth = 1.0f; if(depth < 0.0f) depth = 0.0f;
ClampDepth(depth) ==
    LET d1 == IF FGt(depth, FOne) THEN FOne ELSE depth
    IN  IF FLt(d1, 0) THEN 0 ELSE d1

brClearDepth(depth) ==
    /\ Running
    /\ ctx' = IF cur = NULL THEN ctx ELSE [ctx EXCEPT ![cur].clear_depth = ClampDepth(depth)]
    /\ last' = Call("brClearDepth", <<depth>>)
    /\ UNCHANGED <<cur, alive, mem, fault, pending>>

\* if(radius >= 0.0f) point_radius = radius; else point_radius = 0.0f;
PointRadius(radius) == IF FGe(radius, 0) THEN radius ELSE 0

brPointSize(radius) ==
    /\ Running
    /\ ctx' = IF cur = NULL THEN ctx ELSE [ctx EXCEPT ![cur].point_radius = PointRadius(radius)]
    /\ last' = Call("brPointSize", <<radius>>)
    /\ UNCHANGED <<cur, alive, mem, fault, pending>>

\* if(unit < BR_NUM_TEXTURE_UNITS) texture_unit = unit;  (unit is a uint32_t)
ActiveTexture(c, unit) ==
    IF unit < BR_NUM_TEXTURE_UNITS THEN [c EXCEPT !.texture_unit = unit] ELSE c

brActiveTexture(unit) ==
    /\ Running
    /\ ctx' = IF cur = NULL THEN ctx ELSE [ctx EXCEPT ![cur] = ActiveTexture(@, unit)]
    /\ last' = Call("brActiveTexture", <<unit>>)
    /\ UNCHANGED <<cur, alive, mem, fault, pending>>

\* brBindShader(type, shader) on the context c
BindShader(c, type, shader) ==
    IF type = BR_VERTEX_SHADER THEN [c EXCEPT !.vshader = shader]
    ELSE IF type = BR_FRAGMENT_SHADER THEN [c EXCEPT !.fshader = shader]
    ELSE c

brBindShader(type, shader) ==
    /\ Running
    /\ ctx' = IF cur = NULL THEN ctx ELSE [ctx EXCEPT ![cur] = BindShader(@, type, shader)]
    /\ last' = Call("brBindShader", <<type, shader>>)
    /\ UNCHANGED <<cur, alive, mem, fault, pending>>

PolygonMode(c, mode) ==
    IF mode \in {BR_FILL, BR_LINE, BR_POINT} THEN [c EXCEPT !.poly_mode = mode] ELSE c

brPolygonMode(mode) ==
    /\ Running
    /\ ctx' = IF cur = NULL THEN ctx ELSE [ctx EXCEPT ![cur] = PolygonMode(@, mode)]
    /\ last' = Call("brPolygonMode", <<mode>>)
    /\ UNCHANGED <<cur, alive, mem, fault, pending>>

CullWinding(c, winding) ==
    IF winding \in {BR_CW, BR_CCW} THEN [c EXCEPT !.cull_winding = winding] ELSE c

brCullWinding(winding) ==
    /\ Running
    /\ ctx' = IF cur = NULL THEN ctx ELSE [ctx EXCEPT ![cur] = CullWinding(@, winding)]
    /\ last' = Call("brCullWinding", <<winding>>)
    /\ UNCHANGED <<cur, alive, mem, fault, pending>>

(***************************************************************************)
(* Render-target management of one context: bind, unbind, swap, clear and  *)
(* the BR_DOUBLE_BUFFER toggle, from the state the application is in after *)
(* brBindContext(brCreateContext()).                                       *)
(***************************************************************************)
\* a `type' argument that is no renderbuffer format
NotAFormat == BR_FILL

\* The arguments the application passes to brBindRenderbuffer: one of its
\* arrays with the array's own type and dimensions, or a call that is wrong in
\* its type, in a dimension (zero), or in the buffer (NULL).
BindArgs(b) ==
    {<<type, w, h, b>> : type \in {BufType(b), NotAFormat}, w \in {0, BufW(b)}, h \in {0, BufH(b)}}

BindCalls == (UNION {BindArgs(b) : b \in BufIds}) \cup {<<BR_R8G8B8A8, BigW, BigH, NULL>>}

InitBound ==
    /\ cur = 1
    /\ alive = {1}
    /\ ctx = [c \in CtxIds |-> DefaultContext]
    /\ mem = [b \in BufIds |-> [i \in 1..(BufW(b) * BufH(b)) |-> StalePixel]]
    /\ fault = "none"
    /\ pending = << >>
    /\ last = [op |-> "brBindContext", args |-> <<1>>, cur0 |-> NULL,
               before |-> DefaultContext, run |-> 0, base |-> DefaultContext,
               frag |-> NoFragment, dst_color |-> <<0, 0>>, dst_depth |-> <<0, 0>>]

NextTargets ==
    \/ \E a \in BindCalls : brBindRenderbuffer(a[1], a[2], a[3], a[4])
    \/ \E buffers \in BufferBitSets : brUnbindRenderbuffer(buffers)
    \/ brEnable(BR_DOUBLE_BUFFER)
    \/ brDisable(BR_DOUBLE_BUFFER)
    \/ brSwapBuffers
    \/ \E buffers \in BufferBitSets : brClear(buffers)

SpecTargets == InitBound /\ [][NextTargets]_vars

(***************************************************************************)
(* Properties of render-target management (checked under SpecTargets).     *)
(***************************************************************************)
\* every pixel of the array holds `value'
AllPixels(m, buffer, value) == \A i \in DOMAIN m[buffer] : m[buffer][i] = value

Untouched(buffer) == AllPixels(mem, buffer, StalePixel)

\* C4: brClear writes only the back set when BR_DOUBLE_BUFFER is enabled and
\* only the front set when it is disabled: every array that is not bound in
\* that set keeps its contents (so the other set's memory is unchanged), a
\* requested buffer the set has not bound is skipped, and each requested and
\* bound buffer of the set is filled with the clear value.
C4_ClearWritesSelectedSet ==
    [][(last'.op = "brClear" /\ cur # NULL) =>
        LET c == ctx[cur]
            t == IF c.double_buffer THEN BackSet(c) ELSE FrontSet(c)
            buffers == last'.args[1]
            wantColor == COLOR_BIT \in buffers /\ t.cb # NULL
            wantDepth == DEPTH_BIT \in buffers /\ t.db # NULL
        IN  /\ \A b \in BufIds :
                  (~(wantColor /\ b = t.cb) /\ ~(wantDepth /\ b = t.db)) => mem'[b] = mem[b]
            /\ wantColor =>
                  \E v \in ClearColorValues(t.cb_type, c.clear_color) : AllPixels(mem', t.cb, v)
            /\ wantDepth =>
                  \E v \in ClearDepthValues(t.db_type, c.clear_depth) : AllPixels(mem', t.db, v)
    ]_vars

\* C4 witness: with double buffering on, a clear of colour and depth has just
\* filled the back colour buffer, the back set has no depth buffer, and the
\* front set's own colour and depth buffers still hold what they held.
C4_Witness ==
    /\ last.op = "brClear" /\ last.args[1] = {COLOR_BIT, DEPTH_BIT}
    /\ cur # NULL /\ ctx[cur].double_buffer
    /\ ctx[cur].cb2 # NULL /\ ctx[cur].db2 = NULL
    /\ ~Untouched(ctx[cur].cb2)
    /\ ctx[cur].cb # NULL /\ ctx[cur].cb # ctx[cur].cb2 /\ Untouched(ctx[cur].cb)
    /\ ctx[cur].db # NULL /\ Untouched(ctx[cur].db)

\* C5: with BR_DOUBLE_BUFFER enabled, two brSwapBuffers calls in a row put
\* back every front and back pointer, format and dimension.
C5_DoubleSwapRestores ==
    (last.op = "brSwapBuffers" /\ last.run = 2 /\ cur # NULL /\ ctx[cur].double_buffer) =>
        /\ FrontSet(ctx[cur]) = FrontSet(last.base)
        /\ BackSet(ctx[cur]) = BackSet(last.base)

\* C5 witness: a second swap in a row has been made with double buffering
\* on, and the two sets differ in pointers, formats and dimensions.
C5_Witness ==
    /\ last.op = "brSwapBuffers" /\ last.run = 2 /\ cur # NULL /\ ctx[cur].double_buffer
    /\ ctx[cur].cb # NULL /\ ctx[cur].cb2 # NULL /\ ctx[cur].db2 # NULL
    /\ ctx[cur].cb # ctx[cur].cb2
    /\ ctx[cur].cb_type # ctx[cur].cb2_type
    /\ ctx[cur].rb_width # ctx[cur].rb2_width

\* C6: brSwapBuffers leaves every slot as it was when BR_DOUBLE_BUFFER is
\* disabled, and when it is enabled exchanges the six slot values of the
\* front set with those of the back set, all together.
C6_SwapExchangesOrNothing ==
    (last.op = "brSwapBuffers" /\ cur # NULL) =>
        IF last.before.double_buffer
        THEN /\ FrontSet(ctx[cur]) = BackSet(last.before)
             /\ BackSet(ctx[cur]) = FrontSet(last.before)
        ELSE ctx[cur] = last.before

\* C6 witness: a swap was called with double buffering off while the front
\* and the back set held different buffers.
C6_Witness ==
    /\ last.op = "brSwapBuffers" /\ cur # NULL
    /\ ~last.before.double_buffer
    /\ last.before.cb # NULL /\ last.before.cb2 # NULL
    /\ FrontSet(last.before) # BackSet(last.before)

\* the front set of c has a buffer and (width, height) are not its dimensions
Mismatch(c, width, height) ==
    (c.cb # NULL \/ c.db # NULL) /\ (width # c.rb_width \/ height # c.rb_height)

\* C7: brBindRenderbuffer changes nothing when the front set has a buffer
\* and the width or height differs from the set's, when the type is not a
\* renderbuffer format, when the buffer is NULL, or when a dimension is zero.
C7_BadBindIgnored ==
    (last.op = "brBindRenderbuffer" /\ cur # NULL) =>
        LET type == last.args[1]  width == last.args[2]
            height == last.args[3]  buffer == last.args[4]
        IN  (\/ Mismatch(last.before, width, height)
             \/ type \notin (ColorFormats \cup DepthFormats)
             \/ buffer = NULL
             \/ width = 0 \/ height = 0)
            => ctx[cur] = last.before

\* C7 witness: a bind of a real buffer with a recognized type and nonzero
\* dimensions was made while the front set held a buffer of other dimensions.
C7_Witness ==
    /\ last.op = "brBindRenderbuffer" /\ cur # NULL
    /\ last.args[1] \in ColorFormats /\ last.args[4] # NULL
    /\ last.args[2] >= 1 /\ last.args[3] >= 1
    /\ last.before.db # NULL
    /\ Mismatch(last.before, last.args[2], last.args[3])

\* a set (its six slots) is consistent: without a buffer its dimensions are
\* (0, 0); with one they are at least 1 and are those each bound buffer was
\* bound with (the application binds an array with the array's dimensions)
SetConsistent(t) ==
    /\ (t.cb = NULL /\ t.db = NULL) => (t.width = 0 /\ t.height = 0)
    /\ (t.cb # NULL \/ t.db # NULL) => (t.width >= 1 /\ t.height >= 1)
    /\ t.cb # NULL => (BufW(t.cb) = t.width /\ BufH(t.cb) = t.height)
    /\ t.db # NULL => (BufW(t.db) = t.width /\ BufH(t.db) = t.height)

\* C8: after any sequence of bind, unbind, swap and enable or disable of
\* BR_DOUBLE_BUFFER, the front set and the back set of every context are
\* consistent.
C8_SetsConsistent ==
    \A c \in alive : SetConsistent(FrontSet(ctx[c])) /\ SetConsistent(BackSet(ctx[c]))

\* C8 witness: the front set was emptied by an unbind of both buffers while
\* the back set holds a colour and a depth buffer.
C8_Witness ==
    /\ last.op = "brUnbindRenderbuffer" /\ cur # NULL
    /\ last.before.cb # NULL /\ last.before.db # NULL
    /\ ctx[cur].cb = NULL /\ ctx[cur].db = NULL
    /\ ctx[cur].cb2 # NULL /\ ctx[cur].db2 # NULL

(***************************************************************************)
(* The value setters of one context, called with arguments in and out of   *)
(* range.                                                                  *)
(***************************************************************************)
\* float arguments: -1, 0.5, 2 and a NaN
FloatArgs == {0 - FOne, FOne \div 2, 2 * FOne, NaN}

\* brClearColor calls: every channel sees every float argument
ClearColorCalls == {<<x, y, x, y>> : x \in FloatArgs, y \in FloatArgs}

\* brPointSize arguments: -1, 0.5, 3 and a NaN
RadiusArgs == {0 - FOne, FOne \div 2, 3 * FOne, NaN}

\* brActiveTexture arguments: the first and the last unit, the first value
\* past the last unit, and a large one
UnitArgs == {0, BR_NUM_TEXTURE_UNITS - 1, BR_NUM_TEXTURE_UNITS, 2147483647}

NextState ==
    \/ \E unit \in UnitArgs : brActiveTexture(unit)
    \/ \E a \in ClearColorCalls : brClearColor(a[1], a[2], a[3], a[4])
    \/ \E depth \in FloatArgs : brClearDepth(depth)
    \/ \E radius \in RadiusArgs : brPointSize(radius)

SpecState == InitBound /\ [][NextState]_vars

\* x is a number of [0, 1]
InUnitRange(x) == x # NaN /\ 0 <= x /\ x <= FOne

\* the value of [0, 1] nearest to the number x
Nearest01(x) == IF x < 0 THEN 0 ELSE IF x > FOne THEN FOne ELSE x

\* C9: after brCreateContext and any sequence of brActiveTexture,
\* brClearColor, brClearDepth and brPointSize calls with arbitrary arguments,
\* the active texture unit is in [0, 255], the clear depth and every clear
\* colour channel are in [0, 1] and the point radius is at least 0; a
\* brActiveTexture call with a unit out of range leaves the unit unchanged.
C9_SetterRanges ==
    /\ \A c \in alive :
          /\ ctx[c].texture_unit \in 0..(BR_NUM_TEXTURE_UNITS - 1)
          /\ InUnitRange(ctx[c].clear_depth)
          /\ \A i \in 1..4 : InUnitRange(ctx[c].clear_color[i])
          /\ FGe(ctx[c].point_radius, 0)
    /\ (last.op = "brActiveTexture" /\ cur # NULL /\ last.args[1] >= BR_NUM_TEXTURE_UNITS)
          => ctx[cur].texture_unit = last.before.texture_unit

\* C9 for arguments that are numbers: the ranges hold as long as no NaN has
\* been passed, and every out-of-range number is stored as the nearest value
\* of the range.
C9_NumbersClamped ==
    /\ (last.op = "brClearDepth" /\ cur # NULL /\ last.args[1] # NaN)
          => ctx[cur].clear_depth = Nearest01(last.args[1])
    /\ (last.op = "brClearColor" /\ cur # NULL)
          => \A i \in 1..4 : last.args[i] # NaN
                  => ctx[cur].clear_color[i] = Nearest01(last.args[i])
    /\ (last.op = "brPointSize" /\ cur # NULL)
          => ctx[cur].point_radius = (IF last.args[1] = NaN \/ last.args[1] < 0 THEN 0
                                      ELSE last.args[1])

(***************************************************************************)
(* Contexts come and go: the application creates, binds and frees up to    *)
(* MaxCtx contexts, and while none is bound it makes every other call.     *)
(***************************************************************************)
\* the element arrays the application passes to brDrawElements
ElementArrays == {<<0, 1, 2>>, <<2, 1, 0>>}

\* the calls the application makes while no context is bound
CallsWithoutContext ==
    \/ brBindRenderbuffer(BR_R8G8B8A8, BigW, BigH, BufCA)
    \/ brUnbindRenderbuffer({COLOR_BIT, DEPTH_BIT})
    \/ brEnable(BR_BLEND)
    \/ brDisable(BR_CLIP)
    \/ brSwapBuffers
    \/ brClear({COLOR_BIT, DEPTH_BIT})
    \/ brClearColor(FOne, FOne, FOne, FOne)
    \/ brClearDepth(FOne \div 2)
    \/ brPointSize(2 * FOne)
    \/ brActiveTexture(1)
    \/ brPolygonMode(BR_LINE)
    \/ brCullWinding(BR_CCW)
    \/ \E count \in {3, 5} : brVertexPointer(count, 0, 28)
    \/ \E count \in {2, 4} : brColorPointer(count, 12, 28)
    \/ brNormalPointer(0, 0)
    \/ brTexCoordPointer(0, 0)
    \/ \E ptype \in {BR_POINTS, BR_TRIANGLES}, indices \in {0, 3} : brDrawArray(ptype, indices, 1)
    \/ \E ptype \in {BR_POINTS, BR_TRIANGLES}, indices \in {0, 3}, elements \in ElementArrays :
          brDrawElements(ptype, indices, 1, elements)

NextCtx ==
    \/ brCreateContext
    \/ \E context \in alive \cup {NULL} : brBindContext(context)
    \/ \E context \in alive \cup {NULL} : brFreeContext(context)
    \/ cur = NULL /\ CallsWithoutContext

SpecCtx == Init /\ [][NextCtx]_vars

\* the calls that create, bind and free contexts
LifecycleOps == {"brCreateContext", "brBindContext", "brFreeContext"}

\* C3: with no context bound, every API call other than the three that
\* create, bind and free contexts completes as a no-op: it changes no state
\* and no buffer and does not dereference the absent context.
C3_NoContextNoOp ==
    [][(cur = NULL /\ last'.op \notin LifecycleOps) =>
          /\ fault' = "none"
          /\ UNCHANGED <<cur, alive, ctx, mem, pending>>
    ]_vars

\* C3 for the calls that test _brcontext first: each of them is a no-op with
\* no context bound.
C3_CheckedCallsNoOp ==
    [][(cur = NULL /\ last'.op \in {"brBindRenderbuffer", "brUnbindRenderbuffer", "brEnable",
                                   "brDisable", "brSwapBuffers", "brClear", "brClearColor",
                                   "brClearDepth", "brPointSize", "brActiveTexture",
                                   "brPolygonMode", "brCullWinding"}) =>
          /\ fault' = "none"
          /\ UNCHANGED <<cur, alive, ctx, mem, pending>>
    ]_vars

\* C10: brFreeContext of the context that is bound leaves no context bound;
\* brFreeContext of another context, or of NULL, leaves the binding as it was.
C10_FreeClearsOwnBinding ==
    last.op = "brFreeContext" =>
        cur = (IF last.args[1] # NULL /\ last.args[1] = last.cur0 THEN NULL ELSE last.cur0)

\* C10 witness: the bound context was just freed while another context is
\* alive, and no context is bound now.
C10_Witness ==
    /\ last.op = "brFreeContext"
    /\ last.args[1] # NULL /\ last.args[1] = last.cur0
    /\ alive # {}
    /\ cur = NULL

\* C10 witness for the other case: a context that is not the bound one was
\* freed and the bound one is still bound.
C10_WitnessOther ==
    /\ last.op = "brFreeContext"
    /\ last.args[1] # NULL /\ last.cur0 # NULL /\ last.args[1] # last.cur0
    /\ cur = last.cur0

(***************************************************************************)
(* Drawing into a render target: the application has enabled the vertex    *)
(* and colour arrays and described the layout of RedTriangle, and goes on  *)
(* to bind buffers, clear, switch the depth test, and draw points, lines   *)
(* and triangles.                                                          *)
(***************************************************************************)
\* after brCreateContext, brBindContext, brEnable(BR_VERTEX_ARRAY),
\* brEnable(BR_COLOR_ARRAY), brVertexPointer(3, 0, 28), brColorPointer(4, 12, 28)
ArraysSet ==
    [DefaultContext EXCEPT !.vertex_array = TRUE, !.color_array = TRUE,
                           !.vertex_count = 3, !.vertex_offset = 0, !.vertex_stride = 28,
                           !.color_count = 4, !.color_offset = 12, !.color_stride = 28]

InitDraw ==
    /\ cur = 1
    /\ alive = {1}
    /\ ctx = [c \in CtxIds |-> IF c = 1 THEN ArraysSet ELSE DefaultContext]
    /\ mem = [b \in BufIds |-> [i \in 1..(BufW(b) * BufH(b)) |-> StalePixel]]
    /\ fault = "none"
    /\ pending = << >>
    /\ last = [op |-> "brColorPointer", args |-> <<4, 12, 28>>, cur0 |-> 1,
               before |-> [ArraysSet EXCEPT !.color_count = 0, !.color_offset = 0,
                                            !.color_stride = 0],
               run |-> 0, base |-> DefaultContext,
               frag |-> NoFragment, dst_color |-> <<0, 0>>, dst_depth |-> <<0, 0>>]

\* the primitive types and the number of vertices of one primitive
PrimitiveTypes == {BR_POINTS, BR_LINES, BR_TRIANGLES}
VerticesOf(ptype) == IF ptype = BR_POINTS THEN 1 ELSE IF ptype = BR_LINES THEN 2 ELSE 3

NextDepth ==
    \/ brBindRenderbuffer(BR_R8G8B8A8, BigW, BigH, BufCA)
    \/ brBindRenderbuffer(BR_D16, BigW, BigH, BufDA)
    \/ brBindRenderbuffer(BR_R5G5B5A1, SmallW, SmallH, BufCS)
    \/ brBindRenderbuffer(BR_D32, SmallW, SmallH, BufDS)
    \/ brClear({COLOR_BIT, DEPTH_BIT})
    \/ brEnable(BR_DEPTH_TEST)
    \/ brDisable(BR_DEPTH_TEST)
    \/ \E ptype \in PrimitiveTypes, array \in 1..3 : brDrawArray(ptype, VerticesOf(ptype), array)
    \/ \E ptype \in PrimitiveTypes : brDrawElements(ptype, VerticesOf(ptype), 1, <<2, 1, 0>>)
    \/ Finalize

SpecDepth == InitDraw /\ [][NextDepth]_vars

(***************************************************************************)
(* The depth test (checked under SpecDepth).  After a step of Finalize,    *)
(* last.frag is the fragment the step ended with and last.dst_color and    *)
(* last.dst_depth are what its pixel held before it.                       *)
(***************************************************************************)
\* the fragment the last step ended with went through the per-fragment code
\* with the depth test on
DepthTested ==
    /\ cur # NULL
    /\ last.frag.kind # "none"
    /\ ctx[cur].depth_test
    /\ ctx[cur].db # NULL
    /\ InTarget(ctx[cur], last.frag.x, last.frag.y)

\* the place of the pixel of that fragment in the buffers
FragmentPixel == (last.frag.y * ctx[cur].rb_width) + last.frag.x + 1

\* its depth lies in [0, max] of the bound depth format
FragmentInRange ==
    WLe(Word(0, 0), last.frag.depth) /\ WLe(last.frag.depth, DepthMax(ctx[cur].db_type))

\* its depth is greater than the depth its pixel held
FragmentDeeper == WLt(last.dst_depth, last.frag.depth)

\* the colour and the depth of its pixel are what they were
PixelUntouched ==
    /\ mem[ctx[cur].db][FragmentPixel] = last.dst_depth
    /\ ctx[cur].cb # NULL => mem[ctx[cur].cb][FragmentPixel] = last.dst_color

\* what _plot_pixel makes of its pixel
FragmentColor == PlotValue(ctx[cur].cb_type, last.frag.rgba, ctx[cur].blend, last.dst_color)

\* C1: with the depth test enabled and a depth buffer bound, a fragment of a
\* point, line or triangle whose depth is greater than the depth stored at its
\* pixel, or outside [0, max] of the depth format, leaves the colour and the
\* depth of the pixel unchanged; a fragment whose depth equals the stored
\* depth passes: its colour is written.
C1_DepthTestRejects ==
    DepthTested =>
        /\ (FragmentDeeper \/ ~FragmentInRange) => PixelUntouched
        /\ (FragmentInRange /\ last.frag.depth = last.dst_depth /\ ctx[cur].cb # NULL)
              => mem[ctx[cur].cb][FragmentPixel] = FragmentColor

\* C1 witness: a fragment of a triangle, deeper than what its pixel held and of
\* another colour, was discarded.
C1_Witness ==
    /\ DepthTested /\ ctx[cur].cb # NULL
    /\ last.frag.kind = "triangle"
    /\ FragmentInRange /\ FragmentDeeper
    /\ FragmentColor # last.dst_color
    /\ PixelUntouched

\* C1 witness: the same for a fragment of a line.
C1_WitnessLine ==
    /\ DepthTested /\ ctx[cur].cb # NULL
    /\ last.frag.kind = "line"
    /\ FragmentInRange /\ FragmentDeeper
    /\ FragmentColor # last.dst_color
    /\ PixelUntouched

\* C1 witness: the same for a fragment of a point.
C1_WitnessPoint ==
    /\ DepthTested /\ ctx[cur].cb # NULL
    /\ last.frag.kind = "point"
    /\ FragmentInRange /\ FragmentDeeper
    /\ FragmentColor # last.dst_color
    /\ PixelUntouched

\* C1 witness: a fragment with a depth below zero, of another colour than its
\* pixel, was discarded although its depth is not greater than the stored one.
C1_WitnessOutOfRange ==
    /\ DepthTested /\ ctx[cur].cb # NULL
    /\ ~FragmentInRange /\ ~FragmentDeeper
    /\ FragmentColor # last.dst_color
    /\ PixelUntouched

\* C1 witness: a fragment deeper than what its pixel of a BR_D32 buffer held,
\* and of another colour, was discarded.
C1_WitnessD32 ==
    /\ DepthTested /\ ctx[cur].cb # NULL
    /\ ctx[cur].db_type = BR_D32
    /\ FragmentInRange /\ FragmentDeeper
    /\ FragmentColor # last.dst_color
    /\ PixelUntouched

\* C1 witness: a fragment as deep as what its pixel held changed the colour of
\* the pixel.
C1_WitnessEqual ==
    /\ DepthTested /\ ctx[cur].cb # NULL
    /\ FragmentInRange /\ last.frag.depth = last.dst_depth
    /\ FragmentColor # last.dst_color
    /\ mem[ctx[cur].cb][FragmentPixel] = FragmentColor

(***************************************************************************)
(* Drawing with and without a render target: the application binds and    *)
(* unbinds buffers, moves them to the back set with brSwapBuffers, sets    *)
(* flags and the polygon mode, and draws.                                  *)
(***************************************************************************)
\* the flags the application switches between draw calls
DrawFlags == {BR_DEPTH_TEST, BR_DEPTH_WRITE, BR_CLIP, BR_CULL}

\* the application draws only while the front set holds no buffer
MayDraw == cur # NULL /\ ctx[cur].cb = NULL /\ ctx[cur].db = NULL

NextNoTarget ==
    \/ brBindRenderbuffer(BR_R8G8B8A8, BigW, BigH, BufCA)
    \/ brBindRenderbuffer(BR_D16, BigW, BigH, BufDA)
    \/ brUnbindRenderbuffer({COLOR_BIT, DEPTH_BIT})
    \/ brEnable(BR_DOUBLE_BUFFER)
    \/ brSwapBuffers
    \/ \E flag \in DrawFlags : brEnable(flag)
    \/ \E flag \in DrawFlags : brDisable(flag)
    \/ \E mode \in {BR_FILL, BR_LINE, BR_POINT} : brPolygonMode(mode)
    \/ \E ptype \in PrimitiveTypes, array \in {1, 4} :
          MayDraw /\ brDrawArray(ptype, VerticesOf(ptype), array)
    \/ \E ptype \in PrimitiveTypes :
          MayDraw /\ brDrawElements(ptype, VerticesOf(ptype), 1, <<2, 1, 0>>)
    \/ Finalize

SpecNoTarget == InitDraw /\ [][NextNoTarget]_vars

(***************************************************************************)
(* Draw calls without a render target (checked under SpecNoTarget).        *)
(***************************************************************************)
\* the front set of the bound context holds no buffer
NoTarget == cur # NULL /\ ctx[cur].cb = NULL /\ ctx[cur].db = NULL

\* the step is one of brDrawArray or brDrawElements: the call starting, or its
\* per-fragment code going on
DrawStep == last'.op \in {"brDrawArray", "brDrawElements"}

\* C2: while the front set of the bound context has neither a colour buffer
\* nor a depth buffer, no step of brDrawArray or brDrawElements changes the
\* memory of any buffer, of the front set or of the back set, whatever the
\* primitive type, the polygon mode, the flags and the vertices.
C2_NoTargetNoWrites == [][(NoTarget /\ DrawStep) => mem' = mem]_vars

\* C2 witness: a filled triangle was drawn to its end while the front set was
\* empty and the back set held both buffers, and the buffers are as they were.
C2_Witness ==
    /\ NoTarget
    /\ ctx[cur].cb2 = BufCA /\ ctx[cur].db2 = BufDA
    /\ last.op \in {"brDrawArray", "brDrawElements"}
    /\ last.args[1] = BR_TRIANGLES /\ ctx[cur].poly_mode = BR_FILL
    /\ last.frag.kind = "point"
    /\ pending = << >>
    /\ AllPixels(mem, BufCA, StalePixel) /\ AllPixels(mem, BufDA, StalePixel)

\* C2 witness: the same for a line drawn with clipping off from vertices
\* outside the clip volume; the fragments are those of its vertex marks, the
\* line itself has no length without a render target.
C2_WitnessLine ==
    /\ NoTarget
    /\ ctx[cur].cb2 = BufCA /\ ctx[cur].db2 = BufDA
    /\ last.op = "brDrawArray" /\ last.args[1] = BR_LINES /\ last.args[3] = 4
    /\ ~ctx[cur].clip
    /\ last.frag.kind = "point"
    /\ pending = << >>
    /\ AllPixels(mem, BufCA, StalePixel) /\ AllPixels(mem, BufDA, StalePixel)

\* C2 witness: the same for a point, with the depth test and the depth write
\* off.
C2_WitnessPoint ==
    /\ NoTarget
    /\ ctx[cur].cb2 = BufCA /\ ctx[cur].db2 = BufDA
    /\ last.op = "brDrawElements" /\ last.args[1] = BR_POINTS
    /\ ~ctx[cur].depth_test /\ ~ctx[cur].depth_write
    /\ last.frag.kind = "point"
    /\ pending = << >>
    /\ AllPixels(mem, BufCA, StalePixel) /\ AllPixels(mem, BufDA, StalePixel)

(***************************************************************************)
(* Culling: the application binds a colour buffer, switches BR_CULL, the   *)
(* cull winding and the polygon mode, and draws the red triangle in both   *)
(* vertex orders.                                                          *)
(***************************************************************************)
\* the vertex orders of brDrawElements: as stored, and reversed
VertexOrders == {<<0, 1, 2>>, <<2, 1, 0>>}

NextCull ==
    \/ brBindRenderbuffer(BR_R8G8B8A8, BigW, BigH, BufCA)
    \/ brEnable(BR_CULL)
    \/ brDisable(BR_CULL)
    \/ \E winding \in {BR_CW, BR_CCW} : brCullWinding(winding)
    \/ \E mode \in {BR_FILL, BR_LINE, BR_POINT} : brPolygonMode(mode)
    \/ \E elements \in VertexOrders : brDrawElements(BR_TRIANGLES, 3, 1, elements)
    \/ Finalize

SpecCull == InitDraw /\ [][NextCull]_vars

\* the elements a draw call was made with
CallElements(call) ==
    IF call.op = "brDrawArray" THEN [i \in 1..call.args[2] |-> i - 1]
    ELSE SubSeq(call.args[4], 1, call.args[2])

\* the winding, as _process_triangle names it, of the triangle a draw call
\* of three vertices was made with
CallWinding(c, call) ==
    IF Clockwise(LoadVertex(c, call.args[3], CallElements(call)[1]).pos,
                 LoadVertex(c, call.args[3], CallElements(call)[2]).pos,
                 LoadVertex(c, call.args[3], CallElements(call)[3]).pos)
    THEN BR_CW ELSE BR_CCW

\* this step is a draw call of one triangle
TriangleDrawStep ==
    /\ last'.op \in {"brDrawArray", "brDrawElements"}
    /\ last'.args[1] = BR_TRIANGLES /\ last'.args[2] = 3
    /\ cur # NULL /\ Running

\* C11: a triangle submitted to a draw call, in any polygon mode, is drawn
\* (the call generates fragments) if and only if BR_CULL is off or the cull
\* winding differs from the winding of the triangle.
C11_CullSymmetry ==
    [][TriangleDrawStep =>
          ((pending' # << >>) <=>
              (~ctx[cur].cull \/ ctx[cur].cull_winding # CallWinding(ctx[cur], last')))
    ]_vars

\* C11 in the BR_FILL polygon mode, where the triangle goes through
\* _process_triangle: there the equivalence holds.
C11_FillCullSymmetry ==
    [][(TriangleDrawStep /\ ctx[cur].poly_mode = BR_FILL) =>
          ((pending' # << >>) <=>
              (~ctx[cur].cull \/ ctx[cur].cull_winding # CallWinding(ctx[cur], last')))
    ]_vars

\* a triangle of the cull winding was submitted with BR_CULL on in a polygon
\* mode other than BR_FILL, and pixels of the colour buffer were written
C11_CulledYetDrawn ==
    /\ last.op = "brDrawElements" /\ cur # NULL /\ pending = << >>
    /\ ctx[cur].cull /\ ctx[cur].poly_mode = BR_LINE
    /\ ctx[cur].cull_winding = CallWinding(ctx[cur], last)
    /\ ctx[cur].cb = BufCA /\ ~AllPixels(mem, BufCA, StalePixel)
    /\ last.frag.kind # "none"


(***************************************************************************)
(* A larger render target: the application owns a fifth array, a colour    *)
(* array of LargeW x LargeH pixels, and draws the half-size red triangle   *)
(* into it in each polygon mode.                                           *)
(***************************************************************************)
LargeW == 8
LargeH == 8
BufCL == 5

InitLarge ==
    /\ cur = 1
    /\ alive = {1}
    /\ ctx = [c \in CtxIds |-> IF c = 1 THEN ArraysSet ELSE DefaultContext]
    /\ mem = [b \in BufIds \cup {BufCL} |->
                 [i \in 1..(IF b = BufCL THEN LargeW * LargeH ELSE BufW(b) * BufH(b)) |->
                     StalePixel]]
    /\ fault = "none"
    /\ pending = << >>
    /\ last = [op |-> "brColorPointer", args |-> <<4, 12, 28>>, cur0 |-> 1,
               before |-> [ArraysSet EXCEPT !.color_count = 0, !.color_offset = 0,
                                            !.color_stride = 0],
               run |-> 0, base |-> DefaultContext,
               frag |-> NoFragment, dst_color |-> <<0, 0>>, dst_depth |-> <<0, 0>>]

NextWire ==
    \/ brBindRenderbuffer(BR_R8G8B8A8, LargeW, LargeH, BufCL)
    \/ \E mode \in {BR_FILL, BR_LINE, BR_POINT} : brPolygonMode(mode)
    \/ \E flag \in {BR_CLIP, BR_PERSPECTIVE_CORRECTION} : brEnable(flag)
    \/ \E flag \in {BR_CLIP, BR_PERSPECTIVE_CORRECTION} : brDisable(flag)
    \/ \E elements \in VertexOrders : brDrawElements(BR_TRIANGLES, 3, 5, elements)
    \/ brDrawArray(BR_TRIANGLES, 3, 5)
    \/ Finalize

SpecWire == InitLarge /\ [][NextWire]_vars

\* the pixels of the render target among those the fragments are at: the
\* pixels the per-fragment code goes on to finalize
FinalizedPixels(c, frags) ==
    {<<frags[i].x, frags[i].y>> : i \in {j \in 1..Len(frags) : InTarget(c, frags[j].x, frags[j].y)}}

\* the vertices a draw call loads
CallVertices(c, call) ==
    [i \in 1..Len(CallElements(call)) |-> LoadVertex(c, call.args[3], CallElements(call)[i])]

\* the pixels finalized by a draw call of the primitives of type ptype made of
\* the vertices vs[e[1]], .., one primitive for each e of the set es
PrimitivePixels(c, ptype, vs, es) ==
    UNION {FinalizedPixels(c, Assemble(c, ptype, [k \in 1..Len(e) |-> vs[e[k]]], <<0, 0>>)) :
              e \in es}

\* a draw call of one triangle in the polygon mode mode starts
WireDrawStep(mode) == TriangleDrawStep /\ ctx[cur].poly_mode = mode /\ fault' = "none"

\* C12: a BR_TRIANGLES draw in BR_LINE polygon mode passes to the fragment
\* finalizer exactly the pixels of the three edges (v0,v1), (v1,v2), (v2,v0)
\* each rasterized as a line primitive, in BR_POINT polygon mode exactly the
\* pixels of the three points, and in neither mode any fragment of a
\* triangle fill
C12_WireframePixels ==
    [][(WireDrawStep(BR_LINE) \/ WireDrawStep(BR_POINT)) =>
          /\ FinalizedPixels(ctx[cur], pending')
                 = PrimitivePixels(ctx[cur],
                                   IF ctx[cur].poly_mode = BR_LINE THEN BR_LINES ELSE BR_POINTS,
                                   CallVertices(ctx[cur], last'),
                                   IF ctx[cur].poly_mode = BR_LINE
                                   THEN {<<1, 2>>, <<2, 3>>, <<3, 1>>}
                                   ELSE {<<1>>, <<2>>, <<3>>})
          /\ \A i \in 1..Len(pending') : pending'[i].kind # "triangle"]_vars

\* the pixel (x, y) of the large colour array
LargePixel(m, x, y) == m[BufCL][(y * LargeW) + x + 1]

\* the triangle was drawn in BR_LINE mode into the large array: the pixel
\* (2, 4) of its left edge is red, and the pixel (3, 3) inside it holds the
\* white of a vertex mark, which a fill would have painted red
C12_Witness ==
    /\ last.op \in {"brDrawArray", "brDrawElements"} /\ cur # NULL /\ pending = << >>
    /\ ctx[cur].poly_mode = BR_LINE /\ ctx[cur].cb = BufCL
    /\ LargePixel(mem, 2, 4) = <<65280, 255>>
    /\ LargePixel(mem, 3, 3) = <<65535, 65535>>

(***************************************************************************)
(* The texture of this model and what the application packs into it.      *)
(***************************************************************************)
\* the texture array of this model, the size of the texture in it, and the
\* length of the array in elements: four bytes to a texel
BufTex == 6
TexW == 3
TexH == 2
TexLen == TexW * TexH * 4

\* the channel values of a field of w bits this model packs: all of them up
\* to three bits, and the ends and two patterns of the wider fields
FieldValues(w) ==
    IF w = 0 THEN {0}
    ELSE IF w <= 3 THEN 0..((2^w) - 1)
    ELSE {0, 1, ((2^w) - 1) \div 3, (2 * ((2^w) - 1)) \div 3, (2^w) - 1}

\* the widths of the red, green, blue and alpha fields of the format
FieldWidths(format) ==
    IF format \in {BR_R8G8B8A8, BR_A8B8G8R8} THEN <<8, 8, 8, 8>>
    ELSE IF format \in {BR_R8G8B8, BR_B8G8R8} THEN <<8, 8, 8, 0>>
    ELSE IF format \in {BR_R5G5B5A1, BR_A1B5G5R5} THEN <<5, 5, 5, 1>>
    ELSE IF format \in {BR_R5G5B5, BR_B5G5R5} THEN <<5, 5, 5, 0>>
    ELSE IF format \in {BR_R3G2B2A1, BR_A1B2G2R3} THEN <<3, 2, 2, 1>>
    ELSE <<3, 3, 2, 0>>

ChannelTuples(format) ==
    {<<r, g, b, a>> : r \in FieldValues(FieldWidths(format)[1]),
                      g \in FieldValues(FieldWidths(format)[2]),
                      b \in FieldValues(FieldWidths(format)[3]),
                      a \in FieldValues(FieldWidths(format)[4])}

\* a context is current and the texture array holds the bytes 1, 2, ..
InitTexture ==
    /\ cur = 1
    /\ alive = {1}
    /\ ctx = [c \in CtxIds |-> DefaultContext]
    /\ mem = [b \in {BufTex} |-> [i \in 1..TexLen |-> <<0, i>>]]
    /\ fault = "none"
    /\ pending = << >>
    /\ last = [op |-> "brBindContext", args |-> <<1>>, cur0 |-> NULL,
               before |-> DefaultContext, run |-> 0, base |-> DefaultContext,
               frag |-> NoFragment, dst_color |-> <<0, 0>>, dst_depth |-> <<0, 0>>]

\* brTexture(data, format, width, height, compressed) on the context c
Texture(c, data, format, width, height, compressed) ==
    IF data = NULL \/ ~_is_pixel_format(format) \/ width < 1 \/ height < 1
    THEN [c EXCEPT !.textures = [u \in DOMAIN c.textures \ {c.texture_unit} |-> c.textures[u]]]
    ELSE [c EXCEPT !.textures =
             [u \in DOMAIN c.textures \cup {c.texture_unit} |->
                 IF u = c.texture_unit
                 THEN [data |-> data, width |-> width, height |-> height, format |-> format,
                       compressed |-> compressed]
                 ELSE c.textures[u]]]

brTexture(data, format, width, height, compressed) ==
    /\ Running
    /\ ctx' = IF cur = NULL THEN ctx
              ELSE [ctx EXCEPT ![cur] = Texture(@, data, format, width, height, compressed)]
    /\ last' = Call("brTexture", <<data, format, width, height, compressed>>)
    /\ UNCHANGED <<cur, alive, mem, fault, pending>>

\* the texture of one packed texel: the application has stored
\* _BR_<format>(r, g, b, a) at the start of the texture array and uploaded
\* the array with brTexture(data, format, 1, 1, true)
InitPacked ==
    /\ cur = 1
    /\ alive = {1}
    /\ fault = "none"
    /\ pending = << >>
    /\ \E format \in ColorFormats : \E t \in ChannelTuples(format) :
          /\ ctx = [c \in CtxIds |->
                       IF c = 1 THEN Texture(DefaultContext, BufTex, format, 1, 1, TRUE)
                       ELSE DefaultContext]
          /\ mem = [b \in {BufTex} |->
                       [i \in 1..TexLen |-> IF i = 1 THEN Encode(format, t) ELSE <<0, i>>]]
          /\ last = [op |-> "PackTexel", args |-> <<format, t>>, cur0 |-> 1,
                     before |-> DefaultContext, run |-> 0, base |-> DefaultContext,
                     frag |-> NoFragment, dst_color |-> <<0, 0>>, dst_depth |-> <<0, 0>>]

\* the application reads that texel back with the macros of the format
UnpackTexel(format) ==
    /\ Running
    /\ last' = [Call("UnpackTexel", <<format>>) EXCEPT
                  !.frag = [kind |-> "texel", x |-> 0, y |-> 0, depth |-> <<0, 0>>,
                            rgba |-> <<DecodeR(format, mem[BufTex][1]),
                                       DecodeG(format, mem[BufTex][1]),
                                       DecodeB(format, mem[BufTex][1]),
                                       DecodeA(format, mem[BufTex][1])>>]]
    /\ UNCHANGED <<cur, alive, ctx, mem, fault, pending>>

\* _get_texel on the texture array; `last' records the texel read and the
\* colour.  It returns at once with no context or a format that is none.
GetTexel(x, y, format, width, height, compressed) ==
    /\ Running
    /\ last' = [Call("_get_texel", <<x, y, format, width, height, compressed>>) EXCEPT
                  !.frag = IF cur = NULL \/ ~_is_pixel_format(format) THEN NoFragment
                           ELSE _get_texel(x, y, mem[BufTex], format, width, height, compressed)]
    /\ UNCHANGED <<cur, alive, ctx, mem, fault, pending>>

\* the texture of the active unit is decoded, by the macros or by the sampler
NextTexel ==
    \/ UnpackTexel(Current.textures[Current.texture_unit].format)
    \/ GetTexel(0, 0, Current.textures[Current.texture_unit].format,
                Current.textures[Current.texture_unit].width,
                Current.textures[Current.texture_unit].height,
                Current.textures[Current.texture_unit].compressed)

SpecTexel == InitPacked /\ [][NextTexel]_vars

\* the texel just packed is decoded: by the macros of its format, or by
\* _get_texel as a packed texel of its format
UnpackStep ==
    /\ last.op = "PackTexel" /\ last'.op = "UnpackTexel" /\ last'.args[1] = last.args[1]
SampleStep ==
    /\ last.op = "PackTexel" /\ last'.op = "_get_texel" /\ last'.args[3] = last.args[1]

\* C13: for each of the 12 colour formats and every channel tuple that fits
\* the field widths, decoding the value the encode macro packs gives the
\* same channels back, with the decode macros of the format and with the
\* packed (`compressed') path of the texture sampler
C13_PackRoundTrip ==
    [][/\ UnpackStep => last'.frag.rgba = last.args[2]
       /\ SampleStep => last'.frag.rgba = TexelColor(last.args[1], last.args[2], TRUE)]_vars

\* the part of C13 that is about the decode macros alone
C13_MacroRoundTrip == [][UnpackStep => last'.frag.rgba = last.args[2]]_vars

\* _get_texel has decoded a packed BR_A1B2G2R3 texel whose alpha bit alone
\* is set, and the colour it gives is not that of the channels packed
C13_SamplerDiffers ==
    /\ last.op = "_get_texel" /\ last.args[3] = BR_A1B2G2R3
    /\ mem[BufTex][1] = _BR_A1B2G2R3(0, 0, 0, 1)
    /\ last.frag.rgba # TexelColor(BR_A1B2G2R3, <<0, 0, 0, 1>>, TRUE)

\* the sampler is asked for the texels at and around the texture of TexW x
\* TexH texels in the texture array, in every format, packed or in bytes
NextClamp ==
    \E x \in (0 - 2)..(TexW + 1) : \E y \in (0 - 2)..(TexH + 1) :
        \E format \in ColorFormats : \E compressed \in BOOLEAN :
            GetTexel(x, y, format, TexW, TexH, compressed)

SpecClamp == InitTexture /\ [][NextClamp]_vars

\* min(max(x, 0), width - 1)
ClampedTo(x, width) == IF x < 0 THEN 0 ELSE IF x > width - 1 THEN width - 1 ELSE x

\* C19: for every integer texel coordinate (x, y), negative ones and ones at
\* or past the width or height included, the sampler reads the texel at
\* (min(max(x, 0), width - 1), min(max(y, 0), height - 1))
C19_TexelClamp ==
    last.op = "_get_texel" =>
        last.frag = _get_texel(ClampedTo(last.args[1], last.args[4]),
                               ClampedTo(last.args[2], last.args[5]),
                               mem[BufTex], last.args[3], last.args[4], last.args[5],
                               last.args[6])

\* the sampler was asked for the texel at x = -1 and read the last texel of
\* the row, not the first
C19_NegativeReadsLast ==
    /\ last.op = "_get_texel" /\ last.args[1] = 0 - 1 /\ last.args[2] = 0
    /\ last.frag.x = last.args[4] - 1 /\ last.frag.y = 0

(***************************************************************************)
(* Clearing twice.  The application binds render targets, sets the clear   *)
(* colour and depth, toggles and swaps the sets, and clears.               *)
(***************************************************************************)
ClearBinds == {<<BufType(b), BufW(b), BufH(b), b>> : b \in BufIds}
\* the arguments of brClearColor: (1, 0, 1/2, 1) and (1/4, 2, -1, 0)
ClearColors == {<<FOne, 0, FOne \div 2, FOne>>, <<FOne \div 4, 2 * FOne, 0 - FOne, 0>>}
\* the arguments of brClearDepth
ClearDepths == {0, FOne \div 2}

NextClear ==
    \/ \E a \in ClearBinds : brBindRenderbuffer(a[1], a[2], a[3], a[4])
    \/ brEnable(BR_DOUBLE_BUFFER)
    \/ brDisable(BR_DOUBLE_BUFFER)
    \/ brSwapBuffers
    \/ \E a \in ClearColors : brClearColor(a[1], a[2], a[3], a[4])
    \/ \E depth \in ClearDepths : brClearDepth(depth)
    \/ \E buffers \in BufferBitSets : brClear(buffers)

SpecClear == InitBound /\ [][NextClear]_vars

\* brClear is called again with the bits of the call before it
SecondClearStep ==
    /\ last.op = "brClear" /\ last'.op = "brClear" /\ last'.args = last.args
    /\ cur # NULL

PointRadii == {FOne, 2 * FOne, 3 * FOne}

NextPoint ==
    \/ brBindRenderbuffer(BR_R8G8B8A8, LargeW, LargeH, BufCL)
    \/ \E radius \in PointRadii : brPointSize(radius)
    \/ brDrawArray(BR_POINTS, 1, 6)
    \/ Finalize

SpecPoint == InitLarge /\ [][NextPoint]_vars

\* the centre (x, y) and the radius of the point _process_point rasters for
\* the vertex at pos
PointCentre(c, pos) ==
    <<Trunc(RasterX(c, PerspDiv(c, pos)[1])), Trunc(RasterY(c, PerspDiv(c, pos)[2]))>>
PointR(c) == Trunc(c.point_radius + (FOne \div 2))

\* a draw call of one point starts, and the point is all inside the target
PointDrawStep ==
    /\ last'.op = "brDrawArray" /\ last'.args[1] = BR_POINTS /\ last'.args[2] = 1
    /\ cur # NULL /\ Running /\ fault' = "none"
    /\ LET p == PointCentre(ctx[cur], CallVertices(ctx[cur], last')[1].pos)
       IN  /\ p[1] - PointR(ctx[cur]) >= 0 /\ p[1] + PointR(ctx[cur]) < ctx[cur].rb_width
           /\ p[2] - PointR(ctx[cur]) >= 0 /\ p[2] + PointR(ctx[cur]) < ctx[cur].rb_height

\* the pixels (x, y) with (x - cx)^2 + (y - cy)^2 <= r^2
Disk(cx, cy, r) ==
    {<<x, y>> \in ((cx - r)..(cx + r)) \X ((cy - r)..(cy + r)) :
        ((x - cx) * (x - cx)) + ((y - cy) * (y - cy)) <= r * r}

\* C15: for a point of integer radius r whose centre (cx, cy) lies with the
\* whole point inside the render target, the distinct pixels passed to the
\* fragment finalizer are exactly those with (x - cx)^2 + (y - cy)^2 <= r^2
\* (29 pixels for r = 3)
C15_PointDisk ==
    [][PointDrawStep =>
          FinalizedPixels(ctx[cur], pending')
             = Disk(PointCentre(ctx[cur], CallVertices(ctx[cur], last')[1].pos)[1],
                    PointCentre(ctx[cur], CallVertices(ctx[cur], last')[1].pos)[2],
                    PointR(ctx[cur]))]_vars

\* the point of radius 3 at the centre of the large target is drawn, and 37
\* pixels were written to, not 29
C15_ThirtySeven ==
    /\ last.op = "brDrawArray" /\ last.args[1] = BR_POINTS /\ cur # NULL /\ pending = << >>
    /\ ctx[cur].cb = BufCL /\ PointR(ctx[cur]) = 3
    /\ Cardinality({i \in 1..(LargeW * LargeH) : mem[BufCL][i] = <<65280, 255>>}) = 37

\* the pixels of a point of radius 1 are those of the disk
C15_UnitDisk ==
    [][(PointDrawStep /\ PointR(ctx[cur]) = 1) =>
          FinalizedPixels(ctx[cur], pending') = Disk(LargeW \div 2, LargeH \div 2, 1)]_vars

(***************************************************************************)
(* Blending.  The application binds the large target as R8G8B8A8 or        *)
(* A8B8G8R8, clears it to a background, and draws the vertex at (0, 0) as  *)
(* a point of a translucent colour with BR_BLEND enabled or disabled.      *)
(***************************************************************************)
\* the backgrounds: opaque black, and a translucent colour
BlendBackgrounds == {<<0, 0, 0, FOne>>, <<FOne \div 2, FOne, 0, FOne \div 4>>}

NextBlend ==
    \/ \E type \in {BR_R8G8B8A8, BR_A8B8G8R8} : brBindRenderbuffer(type, LargeW, LargeH, BufCL)
    \/ brEnable(BR_BLEND)
    \/ brDisable(BR_BLEND)
    \/ \E rgba \in BlendBackgrounds : brClearColor(rgba[1], rgba[2], rgba[3], rgba[4])
    \/ brClear({COLOR_BIT})
    \/ brDrawArray(BR_POINTS, 1, 7)
    \/ Finalize

SpecBlend == InitLarge /\ [][NextBlend]_vars

\* the last step was the per-fragment code of a point drawn with BR_BLEND
\* enabled into a target with 8 bits of alpha, the alpha of the fragment
\* strictly between 0 and 1
BlendedFragment ==
    /\ last.op = "brDrawArray" /\ last.frag.kind = "point"
    /\ cur # NULL /\ fault = "none"
    /\ ctx[cur].blend /\ ctx[cur].cb = BufCL
    /\ ctx[cur].cb_type \in {BR_R8G8B8A8, BR_A8B8G8R8}
    /\ InTarget(ctx[cur], last.frag.x, last.frag.y)
    /\ last.frag.rgba[4] > 0 /\ last.frag.rgba[4] < 65536

\* the pixel of the last fragment, and its channels <<r, g, b, a>>
BlendedPixel == mem[BufCL][(last.frag.y * ctx[cur].rb_width) + last.frag.x + 1]
Channels(format, x) ==
    <<DecodeR(format, x), DecodeG(format, x), DecodeB(format, x), DecodeA(format, x)>>

\* p is within one of 255 * (src * alpha + dst * (1 - alpha)), where the
\* colours src and dst / 255 and alpha are in [0, 1], src and alpha scaled
\* by FOne
WithinOneOfBlend(p, src, dst, alpha) ==
    LET exact == (255 * src * alpha) + (dst * (FOne - alpha) * FOne)
    IN  /\ (p * FOne * FOne) - exact <= FOne * FOne
        /\ exact - (p * FOne * FOne) <= FOne * FOne

\* C16: after a fragment with alpha strictly between 0 and 1 is blended into
\* an R8G8B8A8 or A8B8G8R8 pixel, each colour channel of the pixel is within
\* one of src * alpha + dst * (1 - alpha), dst the channel the pixel held, and
\* its alpha channel is the alpha of the fragment; for the pixel (0, 0, 0, 255)
\* and the fragment (1, 1, 1, 1/2) the four channels are within one of 128
C16_BlendedPixel ==
    BlendedFragment =>
        LET format == ctx[cur].cb_type
            p == Channels(format, BlendedPixel)
            dst == Channels(format, last.dst_color)
            src == [k \in 1..4 |-> last.frag.rgba[k] \div (65536 \div FOne)]
        IN  /\ \A k \in 1..3 : WithinOneOfBlend(p[k], src[k], dst[k], src[4])
            /\ (p[4] * FOne) - (255 * src[4]) \in (0 - FOne)..FOne
            /\ (dst = <<0, 0, 0, 255>> /\ src = <<FOne, FOne, FOne, FOne \div 2>>)
                  => \A k \in 1..4 : p[k] \in 127..129

\* the fragment (1, 1, 1, 1/2) was blended into an R8G8B8A8 pixel holding
\* (0, 0, 0, 255), and the pixel holds (126, 126, 126, 191)
C16_ExampleStored ==
    /\ BlendedFragment /\ ctx[cur].cb_type = BR_R8G8B8A8
    /\ last.dst_color = <<0, 255>>
    /\ last.frag.rgba = <<65536, 65536, 65536, 32768>>
    /\ Channels(BR_R8G8B8A8, BlendedPixel) = <<126, 126, 126, 191>>

(***************************************************************************)
(* The pixels of a filled triangle.  The application draws the half-size   *)
(* red triangle into the large target (SpecWire) in BR_FILL polygon mode,  *)
(* with no depth buffer, no texture, no shader, and BR_BLEND disabled.     *)
(***************************************************************************)
\* the render-target position, scaled by FOne, of the vertex at pos
RasterVertex(c, pos) ==
    <<RasterX(c, PerspDiv(c, pos)[1]), RasterY(c, PerspDiv(c, pos)[2])>>

\* twice the signed area of the triangle a, b, p
EdgeFunction(a, b, p) ==
    ((b[1] - a[1]) * (p[2] - a[2])) - ((b[2] - a[2]) * (p[1] - a[1]))

\* the corners of the pixel (x, y), scaled by FOne
PixelCorners(x, y) == {<<(x + i) * FOne, (y + j) * FOne>> : i \in 0..1, j \in 0..1}

\* the square of the pixel (x, y) reaches the inner side of each edge of the
\* triangle v: every pixel that has a point in the triangle does
TouchesTriangle(x, y, v) ==
    \A e \in {<<1, 2>>, <<2, 3>>, <<3, 1>>} :
        \E p \in PixelCorners(x, y) :
            IF EdgeFunction(v[1], v[2], v[3]) >= 0
            THEN EdgeFunction(v[e[1]], v[e[2]], p) >= 0
            ELSE EdgeFunction(v[e[1]], v[e[2]], p) <= 0

\* the projected triangle of the draw call in progress
DrawnTriangle ==
    [k \in 1..3 |-> RasterVertex(ctx[cur], CallVertices(ctx[cur], last)[k].pos)]

\* this step is per-fragment code of a draw call of one triangle in BR_FILL
\* mode, with no depth buffer and BR_BLEND disabled
FillFragmentStep ==
    /\ last.op \in {"brDrawArray", "brDrawElements"}
    /\ last.args[1] = BR_TRIANGLES /\ last.args[2] = 3
    /\ cur # NULL /\ fault = "none" /\ pending # << >> /\ pending' # pending
    /\ ctx[cur].poly_mode = BR_FILL /\ ~ctx[cur].blend
    /\ ctx[cur].cb = BufCL /\ ctx[cur].db = NULL

\* C17: a draw of a triangle in BR_FILL mode, with no shader, no depth
\* buffer, no texture and BR_BLEND disabled, changes no pixel of the colour
\* buffer outside the projected triangle
C17_FillInsideOnly ==
    [][FillFragmentStep =>
          \A x \in 0..(LargeW - 1), y \in 0..(LargeH - 1) :
              TouchesTriangle(x, y, DrawnTriangle)
                 \/ LargePixel(mem', x, y) = LargePixel(mem, x, y)]_vars

\* the half-size triangle, of the vertices (2, 2), (6, 2), (2, 6) of the 8 x 8
\* target, was drawn in BR_FILL mode: the pixel (0, 2), two pixels to the
\* left of the triangle, holds the white of a vertex mark
C17_MarkOutside ==
    /\ last.op \in {"brDrawArray", "brDrawElements"} /\ last.args[1] = BR_TRIANGLES
    /\ cur # NULL /\ fault = "none" /\ pending = << >>
    /\ ctx[cur].poly_mode = BR_FILL /\ ctx[cur].cb = BufCL
    /\ DrawnTriangle[1][1] >= 2 * FOne /\ DrawnTriangle[2][1] >= 2 * FOne
    /\ DrawnTriangle[3][1] >= 2 * FOne
    /\ ~TouchesTriangle(0, 2, DrawnTriangle)
    /\ LargePixel(mem, 0, 2) = <<65535, 65535>>

(***************************************************************************)
(* Triangles behind the viewer.  The application described the layout of   *)
(* array 8, whose vertices all have w = -1, binds the large target, and    *)
(* draws the triangle in each polygon mode with BR_CLIP on or off.         *)
(***************************************************************************)
\* after brCreateContext, brBindContext, brEnable(BR_VERTEX_ARRAY),
\* brEnable(BR_COLOR_ARRAY), brVertexPointer(4, 0, 32), brColorPointer(4, 16, 32)
HomogeneousSet ==
    [ArraysSet EXCEPT !.vertex_count = 4, !.vertex_stride = 32,
                      !.color_offset = 16, !.color_stride = 32]

InitBehind ==
    /\ cur = 1
    /\ alive = {1}
    /\ ctx = [c \in CtxIds |-> IF c = 1 THEN HomogeneousSet ELSE DefaultContext]
    /\ mem = [b \in BufIds \cup {BufCL} |->
                 [i \in 1..(IF b = BufCL THEN LargeW * LargeH ELSE BufW(b) * BufH(b)) |->
                     StalePixel]]
    /\ fault = "none"
    /\ pending = << >>
    /\ last = [op |-> "brColorPointer", args |-> <<4, 16, 32>>, cur0 |-> 1,
               before |-> [HomogeneousSet EXCEPT !.color_count = 0, !.color_offset = 0,
                                                 !.color_stride = 0],
               run |-> 0, base |-> DefaultContext,
               frag |-> NoFragment, dst_color |-> <<0, 0>>, dst_depth |-> <<0, 0>>]

NextBehind ==
    \/ brBindRenderbuffer(BR_R8G8B8A8, LargeW, LargeH, BufCL)
    \/ \E mode \in {BR_FILL, BR_LINE, BR_POINT} : brPolygonMode(mode)
    \/ \E flag \in {BR_CLIP, BR_PERSPECTIVE_DIVISION} : brEnable(flag)
    \/ \E flag \in {BR_CLIP, BR_PERSPECTIVE_DIVISION} : brDisable(flag)
    \/ \E elements \in VertexOrders : brDrawElements(BR_TRIANGLES, 3, 8, elements)
    \/ brDrawArray(BR_TRIANGLES, 3, 8)
    \/ Finalize

SpecBehind == InitBehind /\ [][NextBehind]_vars

\* a draw call of one triangle starts, its three vertices of negative w
BehindDrawStep ==
    /\ TriangleDrawStep /\ fault' = "none"
    /\ \A k \in 1..3 : CallVertices(ctx[cur], last')[k].pos[4] < 0

C18_DrawnUnclipped ==
    /\ last.op \in {"brDrawArray", "brDrawElements"} /\ last.args[3] = 8
    /\ cur # NULL /\ fault = "none" /\ pending = << >>
    /\ ~ctx[cur].clip /\ ctx[cur].poly_mode = BR_FILL /\ ctx[cur].cb = BufCL
    /\ last.frag # NoFragment
    /\ \E x \in 0..(LargeW - 1), y \in 0..(LargeH - 1) : LargePixel(mem, x, y) = <<65280, 255>>

(***************************************************************************)
(* The shaders of the application and what they are passed.               *)
(***************************************************************************)
\* The application bound a vertex and a fragment shader, enables and
\* disables the attributes passed to them, and vertices and fragments go
\* through the two passes.
VertexAttributes ==
    <<BR_VERTEX_TYPE, BR_VERTEX_POSITION, BR_VERTEX_COLOR, BR_VERTEX_NORMALS,
      BR_VERTEX_TEXTURE_COORDINATES>>
FragmentAttributes ==
    <<BR_PRIMITIVE_COLOR, BR_TEXTURE_COLOR, BR_FRAGMENT_COLOR, BR_BARY_LINEAR,
      BR_BARY_PERSPECTIVE, BR_FRAGMENT_POSITION, BR_FRAGMENT_DEPTH>>
ShaderAttributes ==
    {VertexAttributes[i] : i \in 1..5} \cup {FragmentAttributes[i] : i \in 1..7}

\* a vertex of a triangle, with the addresses of its colour, normal and
\* texture coordinates, and a fragment
PassedVertex ==
    [type |-> BR_TRIANGLES, position |-> <<FOne \div 2, 0 - FOne, 0, FOne>>,
     tcoords |-> 4096, normals |-> 4104, color |-> 4116]
PassedFragment ==
    [primitive_color |-> <<FOne, 0, 0, FOne>>, texture_color |-> <<0, FOne, 0, FOne>>,
     color |-> <<0, 0, FOne, FOne>>, linear_bary |-> <<16384, 16384, 32768>>,
     bary |-> <<8192, 8192, 49152>>, position |-> <<3, 5>>, depth |-> FOne \div 4]

\* after brCreateContext, brBindContext, brBindShader(BR_VERTEX_SHADER, vs),
\* brBindShader(BR_FRAGMENT_SHADER, fs), the shaders vs and fs at the
\* addresses 1 and 2
ShadersBound == [DefaultContext EXCEPT !.vshader = 1, !.fshader = 2]

InitShaders ==
    /\ cur = 1
    /\ alive = {1}
    /\ ctx = [c \in CtxIds |-> IF c = 1 THEN ShadersBound ELSE DefaultContext]
    /\ mem = [b \in BufIds |-> [i \in 1..(BufW(b) * BufH(b)) |-> StalePixel]]
    /\ fault = "none"
    /\ pending = << >>
    /\ last = [op |-> "brBindShader", args |-> <<BR_FRAGMENT_SHADER, 2>>, cur0 |-> 1,
               before |-> [ShadersBound EXCEPT !.fshader = NULL],
               run |-> 0, base |-> DefaultContext,
               frag |-> NoFragment, dst_color |-> <<0, 0>>, dst_depth |-> <<0, 0>>]

\* a vertex goes through _vertex_pass: `last' records the call of the shader
VertexPass(vertex) ==
    /\ Running /\ cur # NULL /\ ctx[cur].vshader # NULL
    /\ last' = Call("_vertex_pass", <<vertex, _vertex_pass(ctx[cur], vertex)>>)
    /\ UNCHANGED <<cur, alive, ctx, mem, fault, pending>>

\* a fragment of a primitive goes through _init_fragment and _fragment_pass
FragmentPass(frag) ==
    /\ Running /\ cur # NULL /\ ctx[cur].fshader # NULL
    /\ last' = Call("_fragment_pass",
                    <<frag, _fragment_pass(ctx[cur], _init_fragment(ctx[cur]), frag)>>)
    /\ UNCHANGED <<cur, alive, ctx, mem, fault, pending>>

NextShaders ==
    \/ \E state \in ShaderAttributes : brEnable(state)
    \/ \E state \in ShaderAttributes : brDisable(state)
    \/ VertexPass(PassedVertex)
    \/ FragmentPass(PassedFragment)

SpecShaders == InitShaders /\ [][NextShaders]_vars

\* the attributes of the sequence order that are enabled in context c, in
\* that order: enabling an enabled attribute changes nothing
EnabledOf(c, order) == SelectSeq(order, LAMBDA tag : SetState(c, tag, TRUE) = c)

\* the value of the attribute tag of a vertex or of a fragment
AttributeValue(v, tag) ==
    CASE tag = BR_VERTEX_TYPE -> v.type
      [] tag = BR_VERTEX_POSITION -> v.position
      [] tag = BR_VERTEX_COLOR -> v.color
      [] tag = BR_VERTEX_NORMALS -> v.normals
      [] tag = BR_VERTEX_TEXTURE_COORDINATES -> v.tcoords
      [] tag = BR_PRIMITIVE_COLOR -> v.primitive_color
      [] tag = BR_TEXTURE_COLOR -> v.texture_color
      [] tag = BR_FRAGMENT_COLOR -> v.color
      [] tag = BR_BARY_LINEAR -> v.linear_bary
      [] tag = BR_BARY_PERSPECTIVE -> v.bary
      [] tag = BR_FRAGMENT_POSITION -> v.position
      [] tag = BR_FRAGMENT_DEPTH -> v.depth

\* the shader call `call' passes exactly the attributes `enabled' of v, in
\* that order: their tags, their count, and their values one after another
\* from the start of the block; with none enabled, a null block and count 0
PassesExactly(call, enabled, v) ==
    /\ call.attrib_count = Len(enabled)
    /\ IF call.attrib_count = 0 THEN call.data = NULL /\ call.format = NULL
       ELSE /\ call.format = enabled
            /\ Len(call.data) = Len(enabled)
            /\ \A k \in 1..Len(enabled) :
                  call.data[k].value = AttributeValue(v, enabled[k])
            /\ call.data[1].offset = 0
            /\ \A k \in 2..Len(enabled) : call.data[k].offset > call.data[k - 1].offset

\* C20: for every subset of enabled shader attributes, the vertex shader
\* (the fragment shader) is called with the tags of exactly the enabled
\* attributes in the order VERTEX_TYPE, VERTEX_POSITION, VERTEX_COLOR,
\* VERTEX_NORMALS, VERTEX_TEXTURE_COORDINATES (PRIMITIVE_COLOR, TEXTURE_COLOR,
\* FRAGMENT_COLOR, BARY_LINEAR, BARY_PERSPECTIVE, FRAGMENT_POSITION,
\* FRAGMENT_DEPTH), with their count, and with a block holding their values in
\* the same order; with no attribute enabled, with a null block and count 0
C20_ShaderDescriptors ==
    /\ last.op = "_vertex_pass" =>
          PassesExactly(last.args[2], EnabledOf(ctx[cur], VertexAttributes), last.args[1])
    /\ last.op = "_fragment_pass" =>
          PassesExactly(last.args[2], EnabledOf(ctx[cur], FragmentAttributes), last.args[1])

\* a fragment went through the fragment pass with BARY_LINEAR, TEXTURE_COLOR
\* and FRAGMENT_DEPTH enabled, in the order they were enabled in, and no
\* vertex attribute: the shader was called with the tags TEXTURE_COLOR,
\* BARY_LINEAR, FRAGMENT_DEPTH and count 3
C20_Witness ==
    /\ last.op = "_fragment_pass" /\ cur # NULL
    /\ EnabledOf(ctx[cur], VertexAttributes) = << >>
    /\ last.args[2].attrib_count = 3
    /\ last.args[2].format = <<BR_TEXTURE_COLOR, BR_BARY_LINEAR, BR_FRAGMENT_DEPTH>>
    /\ last.args[2].data[3] = [offset |-> 28, value |-> PassedFragment.depth]

(***************************************************************************)
(* Scratch memory.  The application binds a colour buffer, binds and       *)
(* unbinds a vertex and a fragment shader, switches the attributes         *)
(* BR_VERTEX_POSITION and BR_FRAGMENT_DEPTH, sets the point size to 0 or 1 *)
(* and draws a point, a line, a line of zero length, a triangle and a      *)
(* triangle outside the clip volume (checked under SpecScratch).           *)
(***************************************************************************)
NextScratch ==
    \/ brBindRenderbuffer(BR_R8G8B8A8, BigW, BigH, BufCA)
    \/ \E shader \in {NULL, 1} : brBindShader(BR_VERTEX_SHADER, shader)
    \/ \E shader \in {NULL, 2} : brBindShader(BR_FRAGMENT_SHADER, shader)
    \/ \E state \in {BR_VERTEX_POSITION, BR_FRAGMENT_DEPTH} : brEnable(state)
    \/ \E state \in {BR_VERTEX_POSITION, BR_FRAGMENT_DEPTH} : brDisable(state)
    \/ \E radius \in {0, FOne} : brPointSize(radius)
    \/ brDrawArray(BR_POINTS, 1, 6)
    \/ brDrawArray(BR_LINES, 2, 5)
    \/ brDrawElements(BR_LINES, 2, 5, <<0, 0>>)
    \/ \E array \in {4, 5} : brDrawArray(BR_TRIANGLES, 3, array)
    \/ Finalize

SpecScratch == InitLarge /\ [][NextScratch]_vars

\* a draw call starts with a context current
ScratchDrawStep ==
    /\ last'.op \in {"brDrawArray", "brDrawElements"}
    /\ cur # NULL /\ Running

\* every block the events allocate is freed exactly once, later, and no
\* block is freed that was not allocated before
ReleasedOnce(events) ==
    /\ \A i \in 1..Len(events) :
          events[i].op = "alloc" =>
              Cardinality({j \in 1..Len(events) :
                              events[j].op = "free" /\ events[j].block = events[i].block}) = 1
    /\ \A j \in 1..Len(events) :
          events[j].op = "free" =>
              \E i \in 1..(j - 1) : events[i].op = "alloc" /\ events[i].block = events[j].block

\* C21: every scratch allocation made during a draw call (the attribute block
\* of the vertex pass, the attribute block and the tag array of the fragment
\* pass) is released exactly once before the call returns, on every path,
\* including points of radius 0, zero-length lines, an empty set of enabled
\* attributes and primitives rejected by clipping, and no pointer that was
\* never allocated is freed
C21_ScratchReleased ==
    [][ScratchDrawStep =>
          \A stale \in BOOLEAN :
              ReleasedOnce(DrawScratch(ctx[cur], last'.args[1],
                                       CallVertices(ctx[cur], last'), stale))]_vars

\* a point of radius 0 was drawn with a fragment shader bound and
\* BR_FRAGMENT_DEPTH enabled: _raster_point allocated the tag array and the
\* attribute block and returned without freeing them
C21_PointLeaks ==
    /\ last.op = "brDrawArray" /\ last.args[1] = BR_POINTS /\ cur # NULL /\ fault = "none"
    /\ ctx[cur].fshader # NULL /\ ctx[cur].sh_fdepth /\ ctx[cur].point_radius = 0
    /\ Len(DrawScratch(ctx[cur], BR_POINTS, CallVertices(ctx[cur], last), FALSE)) = 2

\* a triangle was drawn with a fragment shader bound and the pass blocks of
\* its four rasterizer calls were all released: eight allocations, eight calls
\* of free
C21_TriangleReleases ==
    /\ last.op = "brDrawArray" /\ last.args[1] = BR_TRIANGLES /\ last.args[3] = 5
    /\ cur # NULL /\ fault = "none"
    /\ ctx[cur].fshader # NULL /\ ctx[cur].sh_fdepth /\ ctx[cur].vshader = NULL
    /\ Len(DrawScratch(ctx[cur], BR_TRIANGLES, CallVertices(ctx[cur], last), FALSE)) = 16
    /\ ReleasedOnce(DrawScratch(ctx[cur], BR_TRIANGLES, CallVertices(ctx[cur], last), FALSE))

(***************************************************************************)
(* The order of the finalizer.  The application has enabled                *)
(* BR_FRAGMENT_DEPTH and owns a texture of one blue texel; it binds a      *)
(* colour and a depth buffer, clears them, uploads the texture, binds a    *)
(* fragment shader (the one at 2 returns green, the one at 3 discards) or  *)
(* none, and draws points, lines and triangles at the depths 1/2 and 0     *)
(* (checked under SpecFragment).                                           *)
(***************************************************************************)
InitFragment ==
    /\ cur = 1
    /\ alive = {1}
    /\ ctx = [c \in CtxIds |-> IF c = 1 THEN [ArraysSet EXCEPT !.sh_fdepth = TRUE]
                                ELSE DefaultContext]
    /\ mem = [b \in BufIds \cup {BufTex} |->
                 IF b = BufTex THEN <<Encode(BR_R8G8B8A8, <<0, 0, 255, 255>>)>>
                 ELSE [i \in 1..(BufW(b) * BufH(b)) |-> StalePixel]]
    /\ fault = "none"
    /\ pending = << >>
    /\ last = [op |-> "brEnable", args |-> <<BR_FRAGMENT_DEPTH>>, cur0 |-> 1,
               before |-> ArraysSet, run |-> 0, base |-> DefaultContext,
               frag |-> NoFragment, dst_color |-> <<0, 0>>, dst_depth |-> <<0, 0>>]

NextFragment ==
    \/ brBindRenderbuffer(BR_R8G8B8A8, BigW, BigH, BufCA)
    \/ brBindRenderbuffer(BR_D16, BigW, BigH, BufDA)
    \/ brClear({COLOR_BIT, DEPTH_BIT})
    \/ brTexture(BufTex, BR_R8G8B8A8, 1, 1, TRUE)
    \/ \E shader \in {NULL, 2, 3} : brBindShader(BR_FRAGMENT_SHADER, shader)
    \/ \E ptype \in PrimitiveTypes, array \in {1, 9} :
          brDrawArray(ptype, VerticesOf(ptype), array)
    \/ Finalize

SpecFragment == InitFragment /\ [][NextFragment]_vars

\* the steps of the finalizer in the order the claim gives them
FinalizerOrder ==
    <<"depth test", "texture sample", "fragment shader", "color write", "depth write">>

\* the steps are steps of FinalizerOrder, each at most once, in its order
InFinalizerOrder(steps) ==
    LET Rank(name) == CHOOSE r \in 1..Len(FinalizerOrder) : FinalizerOrder[r] = name
    IN  /\ \A i \in 1..Len(steps) : \E r \in 1..Len(FinalizerOrder) : FinalizerOrder[r] = steps[i]
        /\ \A i, j \in 1..Len(steps) : i < j => Rank(steps[i]) < Rank(steps[j])

\* the name is one of the steps
Takes(steps, name) == \E i \in 1..Len(steps) : steps[i] = name

\* a step of Finalize that ends with a fragment inside the render target
FinalizerStep ==
    /\ cur # NULL /\ fault = "none" /\ pending # << >> /\ pending' # pending
    /\ InTarget(ctx[cur], last'.frag.x, last'.frag.y)

\* the pixel of the fragment in the colour buffer (the depth buffer) of
\* memory m, << >> with none bound
ColorAt(c, m, frag) ==
    IF c.cb = NULL THEN << >> ELSE m[c.cb][(frag.y * c.rb_width) + frag.x + 1]
DepthAt(c, m, frag) ==
    IF c.db = NULL THEN << >> ELSE m[c.db][(frag.y * c.rb_width) + frag.x + 1]

\* what the claim says of the fragment frag finalized from memory m to
\* memory n, given that the shader sets discard or not
OrderedFinalizer(c, m, n, frag, discard) ==
    /\ InFinalizerOrder(FragmentSteps(c, m, frag))
    /\ (c.depth_test /\ c.db # NULL /\ DepthRejects(c, frag.depth, _get_depth(c, m, (frag.y * c.rb_width) + frag.x)))
          => (FragmentSteps(c, m, frag) = <<"depth test">> /\ n = m)
    /\ (c.fshader # NULL /\ discard)
          => (/\ ~Takes(FragmentSteps(c, m, frag), "color write")
              /\ ~Takes(FragmentSteps(c, m, frag), "depth write")
              /\ n = m)
    /\ Takes(FragmentSteps(c, m, frag), "color write") \/ ColorAt(c, n, frag) = ColorAt(c, m, frag)
    /\ Takes(FragmentSteps(c, m, frag), "depth write") \/ DepthAt(c, n, frag) = DepthAt(c, m, frag)
    /\ Takes(FragmentSteps(c, m, frag), "color write")
          => ColorAt(c, n, frag) = PlotValue(c.cb_type, ShadedRgba(c, m, frag), c.blend,
                                             ColorAt(c, m, frag))

\* C22: for every fragment of every primitive kind the finalizer steps occur
\* in the order depth test, texture sample, fragment-shader call, colour
\* write, depth write; a fragment rejected by the depth test never reaches
\* the shader (nor a write), and a fragment for which the shader sets discard
\* causes neither a colour-buffer write nor a depth-buffer write
C22_FinalizerOrder ==
    [][FinalizerStep =>
          OrderedFinalizer(ctx[cur], mem, mem', last'.frag,
                           ctx[cur].fshader = 3)]_vars

\* a fragment of a textured triangle passed the depth test, was sampled and
\* shaded, and was written to both buffers: all five steps, and the green of
\* the shader stored
C22_Witness ==
    /\ last.op = "brDrawArray" /\ last.frag.kind = "triangle" /\ cur # NULL /\ fault = "none"
    /\ ctx[cur].fshader = 2 /\ ctx[cur].cb = BufCA /\ ctx[cur].db = BufDA
    /\ Textured(ctx[cur], last.frag)
    /\ InTarget(ctx[cur], last.frag.x, last.frag.y)
    /\ ~DepthRejects(ctx[cur], last.frag.depth, last.dst_depth)
    /\ ColorAt(ctx[cur], mem, last.frag) = <<255, 255>>
    /\ DepthAt(ctx[cur], mem, last.frag) = last.frag.depth

\* a fragment of a line went to the shader that discards, with both buffers
\* bound and cleared: its pixel still holds the cleared colour and depth
C22_Discarded ==
    /\ last.op = "brDrawArray" /\ last.frag.kind = "line" /\ cur # NULL /\ fault = "none"
    /\ ctx[cur].fshader = 3 /\ ctx[cur].cb = BufCA /\ ctx[cur].db = BufDA
    /\ InTarget(ctx[cur], last.frag.x, last.frag.y)
    /\ ~DepthRejects(ctx[cur], last.frag.depth, last.dst_depth)
    /\ ColorAt(ctx[cur], mem, last.frag) = last.dst_color
    /\ DepthAt(ctx[cur], mem, last.frag) = last.dst_depth

\* a fragment of a point was rejected by the depth test with a shader bound
C22_Rejected ==
    /\ last.op = "brDrawArray" /\ last.frag.kind = "point" /\ cur # NULL /\ fault = "none"
    /\ ctx[cur].fshader = 2 /\ ctx[cur].cb = BufCA /\ ctx[cur].db = BufDA
    /\ InTarget(ctx[cur], last.frag.x, last.frag.y)
    /\ DepthRejects(ctx[cur], last.frag.depth, last.dst_depth)
    /\ ColorAt(ctx[cur], mem, last.frag) = last.dst_color

(***************************************************************************)
(* Lines and the clip volume.  The application binds a colour buffer,      *)
(* switches BR_CLIP and draws the line between the first two vertices of   *)
(* an array: inside the clip volume (arrays 1 and 5), to the right of it   *)
(* (array 4), and from its left to its right through its middle (array 10) *)
(* (checked under SpecLine).                                               *)
(***************************************************************************)
NextLine ==
    \/ brBindRenderbuffer(BR_R8G8B8A8, LargeW, LargeH, BufCL)
    \/ brEnable(BR_CLIP)
    \/ brDisable(BR_CLIP)
    \/ \E array \in {1, 4, 5, 10} : brDrawArray(BR_LINES, 2, array)
    \/ Finalize

SpecLine == InitLarge /\ [][NextLine]_vars

\* a & b of two outcodes
OutcodeAnd(a, b) ==
    LET Bit(x, k) == (x \div (2^k)) % 2
        Sum(f) == f[0] + f[1] + f[2] + f[3] + f[4] + f[5]
    IN  Sum([k \in 0..5 |-> (2^k) * Bit(a, k) * Bit(b, k)])

\* a draw call of one line starts with a render target bound and BR_CLIP
\* enabled
ClippedLineStep ==
    /\ last'.op = "brDrawArray" /\ last'.args[1] = BR_LINES /\ last'.args[2] = 2
    /\ cur # NULL /\ Running /\ ctx[cur].cb # NULL /\ ctx[cur].clip

\* what the claim says of the line from a to b whose draw call left the
\* per-fragment passes frags: rejected only with a bit shared by the two
\* outcodes, unchanged by clip_line with both outcodes 0, and, with the ends
\* outside, no bit shared and the middle of the line inside, drawn
OutcodeClipped(c, a, b, frags) ==
    /\ RasterCalls(c, BR_LINE, <<[pos |-> a], [pos |-> b]>>) = << >>
          => OutcodeAnd(get_outcode(a), get_outcode(b)) # 0
    /\ (get_outcode(a) = 0 /\ get_outcode(b) = 0)
          => (/\ clip_line(a, b) = <<a, b>>
              /\ RasterCalls(c, BR_LINE, <<[pos |-> a], [pos |-> b]>>) # << >>)
    /\ (/\ get_outcode(a) # 0 /\ get_outcode(b) # 0
        /\ OutcodeAnd(get_outcode(a), get_outcode(b)) = 0
        /\ in_frustum([k \in 1..4 |-> (a[k] + b[k]) \div 2]))
          => \E i \in 1..Len(frags) : frags[i].kind = "line" /\ InTarget(c, frags[i].x, frags[i].y)

\* C23: with CLIP enabled, a line is trivially rejected only when the 6-bit
\* outcodes of its two endpoints have a nonzero bitwise AND, and is accepted
\* unchanged when both outcodes are 0; a line whose endpoints are both
\* outside the frustum but whose outcodes share no bit is not rejected
\* without clipping: it is clipped and drawn if a part of it lies inside
C23_OutcodeRejection ==
    [][ClippedLineStep =>
          OutcodeClipped(ctx[cur], CallVertices(ctx[cur], last')[1].pos,
                         CallVertices(ctx[cur], last')[2].pos, pending')]_vars

\* the line from (-3/2, 0) to (3/2, 0) was drawn with BR_CLIP enabled: its
\* outcodes LEFT_BIT and RIGHT_BIT share no bit and its middle is the centre
\* of the clip volume, and the draw call made no fragment
C23_CrossingRejected ==
    /\ last.op = "brDrawArray" /\ last.args = <<BR_LINES, 2, 10>>
    /\ cur # NULL /\ fault = "none" /\ ctx[cur].cb # NULL /\ ctx[cur].clip
    /\ get_outcode(CallVertices(ctx[cur], last)[1].pos) = 1
    /\ get_outcode(CallVertices(ctx[cur], last)[2].pos) = 2
    /\ pending = << >> /\ last.frag = NoFragment

\* the same line was drawn with BR_CLIP disabled, and pixels hold its red
C23_CrossingDrawn ==
    /\ last.op = "brDrawArray" /\ last.args = <<BR_LINES, 2, 10>>
    /\ cur # NULL /\ fault = "none" /\ ctx[cur].cb = BufCL /\ ~ctx[cur].clip
    /\ pending = << >>
    /\ \E i \in 1..(LargeW * LargeH) : mem[BufCL][i] = <<65280, 255>>

(***************************************************************************)
(* Clearing a colour buffer of every format.  The application binds the    *)
(* colour buffer with one of the twelve formats, sets the clear colour     *)
(* and clears (checked under SpecFormats).                                 *)
(***************************************************************************)
\* the arguments of brClearColor: white, red, green, blue, and an opaque
\* and a transparent grey
FormatColors ==
    {<<FOne, FOne, FOne, FOne>>, <<FOne, 0, 0, 0>>, <<0, FOne, 0, 0>>, <<0, 0, FOne, 0>>,
     <<FOne \div 2, FOne \div 2, FOne \div 2, FOne>>,
     <<FOne \div 2, FOne \div 2, FOne \div 2, 0>>}

NextFormats ==
    \/ \E type \in ColorFormats : brBindRenderbuffer(type, BigW, BigH, BufCA)
    \/ \E a \in FormatColors : brClearColor(a[1], a[2], a[3], a[4])
    \/ brClear({COLOR_BIT})

SpecFormats == InitBound /\ [][NextFormats]_vars

\* the largest value of channel k (1 red, 2 green, 3 blue, 4 alpha) of a
\* format: all ones in the field that the format's macros give the channel
FieldMax(format, k) ==
    LET ones == Word(65535, 65535)
    IN  CASE k = 1 -> DecodeR(format, ones)
          [] k = 2 -> DecodeG(format, ones)
          [] k = 3 -> DecodeB(format, ones)
          [] k = 4 -> DecodeA(format, ones)

\* channel k of the pixel x of a format
FieldOf(format, x, k) ==
    CASE k = 1 -> DecodeR(format, x)
      [] k = 2 -> DecodeG(format, x)
      [] k = 3 -> DecodeB(format, x)
      [] k = 4 -> DecodeA(format, x)

\* the pixel x holds the colour cc scaled by the maximum of each channel's
\* field (a one-bit alpha is set for every alpha but 0), and no bit more
ScaledByMax(format, x, cc) ==
    /\ \A k \in 1..3 : FieldOf(format, x, k) = (cc[k] * FieldMax(format, k)) \div FOne
    /\ format \in AlphaFormats
          => FieldOf(format, x, 4) = IF FieldMax(format, 4) = 1 THEN ClearAlphaBit(cc[4])
                                     ELSE (cc[4] * FieldMax(format, 4)) \div FOne
    /\ x = Encode(format, [k \in 1..4 |-> FieldOf(format, x, k)])

\* brClear has just filled the bound colour buffer
ColorCleared ==
    /\ last.op = "brClear" /\ COLOR_BIT \in last.args[1]
    /\ cur # NULL /\ ClearSet(ctx[cur]).cb = BufCA

\* C24: brClear of a colour buffer stores in every pixel the clear colour
\* encoded in the bound format, each channel scaled by the maximum of its
\* field (255, 31, 7 or 3), so that every channel fits its field and alters
\* no other channel's bits, and the clear colour 1.0 gives the all-ones field
C24_ClearEncoding ==
    ColorCleared =>
        \A i \in 1..(BigW * BigH) :
            ScaledByMax(ClearSet(ctx[cur]).cb_type, mem[BufCA][i], ctx[cur].clear_color)

\* the colour buffer of format BR_R3G2B2A1 was cleared with opaque white, and
\* its pixels are 0x29: red 8 is shifted out of the byte, green 4 sets the low
\* bit of red and blue 4 the low bit of green
C24_WhiteByte ==
    /\ ColorCleared /\ ClearSet(ctx[cur]).cb_type = BR_R3G2B2A1
    /\ ctx[cur].clear_color = <<FOne, FOne, FOne, FOne>>
    /\ \A i \in 1..(BigW * BigH) : mem[BufCA][i] = Word(0, 41)

\* the colour buffer of format BR_R5G5B5A1 was cleared with opaque white, and
\* its pixels are 0xFFFF
C24_WhiteShort ==
    /\ ColorCleared /\ ClearSet(ctx[cur]).cb_type = BR_R5G5B5A1
    /\ ctx[cur].clear_color = <<FOne, FOne, FOne, FOne>>
    /\ \A i \in 1..(BigW * BigH) : mem[BufCA][i] = Word(0, 65535)

(***************************************************************************)
(* Plotting into a colour buffer of every format.  The application binds   *)
(* the colour buffer with one of the twelve formats and draws a red and a  *)
(* white point, with blending left disabled (checked under SpecPlot).      *)
(***************************************************************************)
NextPlot ==
    \/ \E type \in ColorFormats : brBindRenderbuffer(type, BigW, BigH, BufCA)
    \/ \E array \in {6, 7} : brDrawArray(BR_POINTS, 1, array)
    \/ Finalize

SpecPlot == InitDraw /\ [][NextPlot]_vars

\* the per-fragment code runs for a fragment inside the target, with a colour
\* buffer bound, no depth buffer and blending disabled
PlotStep ==
    /\ FinalizerStep
    /\ ctx[cur].cb # NULL /\ ctx[cur].db = NULL /\ ~ctx[cur].blend

\* the pixel x of a format holds the red, green and blue of the 16.16 colour
\* rgba, each scaled by the maximum of its field
PlottedByMax(format, x, rgba) ==
    \A k \in 1..3 : FieldOf(format, x, k) = (rgba[k] * FieldMax(format, k)) \div 65536

\* C25: with blending disabled, for each of the 12 colour formats _plot_pixel
\* stores the value whose r, g, b fields are (chan_16_16 * channel_max) >> 16
\* in the bit layout of the bound format, so that the bound format's decode
\* macros return those r, g, b
C25_PlotEncoding ==
    [][PlotStep => PlottedByMax(ctx[cur].cb_type, ColorAt(ctx[cur], mem', last'.frag),
                                last'.frag.rgba)]_vars

\* a red fragment was plotted into a BR_R8G8B8 buffer, and the pixel is
\* 0x000000FF: _BR_R8G8B8_R gives 0 and _BR_R8G8B8_B gives 255
C25_RedIsBlue ==
    /\ last.op = "brDrawArray" /\ last.args[3] = 6 /\ cur # NULL /\ fault = "none"
    /\ ctx[cur].cb = BufCA /\ ctx[cur].cb_type = BR_R8G8B8 /\ ~ctx[cur].blend
    /\ last.frag.kind = "point" /\ InTarget(ctx[cur], last.frag.x, last.frag.y)
    /\ last.frag.rgba = <<65536, 0, 0, 65536>>
    /\ ColorAt(ctx[cur], mem, last.frag) = Word(0, 255)
    /\ DecodeR(BR_R8G8B8, ColorAt(ctx[cur], mem, last.frag)) = 0
    /\ DecodeB(BR_R8G8B8, ColorAt(ctx[cur], mem, last.frag)) = 255

\* a red fragment was plotted into a BR_R3G2B2A1 buffer, and the pixel is
\* 0xE1: red 7, green 0, blue 0, alpha 1
C25_RedByte ==
    /\ last.op = "brDrawArray" /\ last.args[3] = 6 /\ cur # NULL /\ fault = "none"
    /\ ctx[cur].cb = BufCA /\ ctx[cur].cb_type = BR_R3G2B2A1 /\ ~ctx[cur].blend
    /\ last.frag.kind = "point" /\ InTarget(ctx[cur], last.frag.x, last.frag.y)
    /\ ColorAt(ctx[cur], mem, last.frag) = Word(0, 225)

(***************************************************************************)
(* The stepping loop of _raster_line, one iteration at a time.  A raster   *)
(* coordinate (a float of the parameters) is whole pixels and 256ths of a  *)
(* pixel, [px, sub]: near the target, or so far right of it that its       *)
(* product with 256.0f is out of the range of int.  The conversion of such *)
(* a product is undefined: the build either gives INT_MIN for every value  *)
(* out of range or the nearest int.  Lines with one end near and one far   *)
(* are not among the inputs (checked under SpecLoopLive).                  *)
(***************************************************************************)
\* the least whole pixel whose 24.8 value is out of the range of int: 2^23
FarPixel == 8388608
INT_MAX == 2147483647
INT_MIN == (0 - INT_MAX) - 1

NearCoords == {[px |-> p, sub |-> s] : p \in {0 - 1, 0, 2}, s \in {0, 128}}
FarCoords == {[px |-> FarPixel + d, sub |-> 0] : d \in {0, 3}}
LoopLines ==
    {[x0 |-> a, y0 |-> b, x1 |-> c, y1 |-> d] :
        a \in NearCoords, c \in NearCoords, b \in {[px |-> 1, sub |-> 0]},
        d \in {[px |-> 1, sub |-> 0], [px |-> 3, sub |-> 128]}}
    \cup {[x0 |-> a, y0 |-> b, x1 |-> c, y1 |-> d] :
        a \in FarCoords, c \in FarCoords, b \in {[px |-> 1, sub |-> 0]},
        d \in {[px |-> 1, sub |-> 0], [px |-> 3, sub |-> 128]}}
ConversionRules == {"indefinite", "nearest"}

\* (int)(v * 256.0f)
Fixed24_8(v, rule) ==
    IF v.px >= FarPixel THEN (IF rule = "indefinite" THEN INT_MIN ELSE INT_MAX)
    ELSE (v.px * 256) + v.sub

\* (int)v: toward zero
WholePixel(v) == IF v.px < 0 /\ v.sub > 0 THEN v.px + 1 ELSE v.px

\* a - b of two floats near each other, in 256ths
Apart(a, b) == ((a.px - b.px) * 256) + (a.sub - b.sub)

\* pow(a.x - b.x, 2) + pow(a.y - b.y, 2), in 65536ths
SquaredLength(l) ==
    (Apart(l.x0, l.x1) * Apart(l.x0, l.x1)) + (Apart(l.y0, l.y1) * Apart(l.y0, l.y1))

\* the variables of the loop; length is (int)length
LoopVars(x, y, err, p, length) ==
    [kind |-> "loop", x |-> x, y |-> y, err |-> err, p |-> p, length |-> length]

\* _raster_line was called with the line l, on a context with a colour
\* buffer of LargeW x LargeH
InitLoop ==
    /\ cur = 1
    /\ alive = {1}
    /\ ctx = [c \in CtxIds |->
                 IF c = 1 THEN [ArraysSet EXCEPT !.cb = BufCL, !.cb_type = BR_R8G8B8A8,
                                                 !.rb_width = LargeW, !.rb_height = LargeH]
                 ELSE DefaultContext]
    /\ mem = [b \in {BufCL} |-> [i \in 1..(LargeW * LargeH) |-> StalePixel]]
    /\ fault = "none"
    /\ pending = << >>
    /\ \E l \in LoopLines, rule \in ConversionRules :
          last = [op |-> "_raster_line", args |-> <<l, rule>>, cur0 |-> 1,
                  before |-> DefaultContext, run |-> 0, base |-> DefaultContext,
                  frag |-> [kind |-> "entry"], dst_color |-> <<0, 0>>, dst_depth |-> <<0, 0>>]

\* from the call to the loop: `float length = sqrt(...); if(length == 0.0f)
\* return;', then dx, dy, err, x and y
RasterLineEnter ==
    /\ last.op = "_raster_line" /\ last.frag.kind = "entry"
    /\ LET l == last.args[1]
           x0 == Fixed24_8(l.x0, last.args[2])
           x1 == Fixed24_8(l.x1, last.args[2])
           y0 == Fixed24_8(l.y0, last.args[2])
           y1 == Fixed24_8(l.y1, last.args[2])
           dx == Abs(x1 - x0)
           dy == Abs(y1 - y0)
       IN  last' = [last EXCEPT
                      !.frag = IF SquaredLength(l) = 0 THEN [kind |-> "returned"]
                               ELSE LoopVars(WholePixel(l.x0), WholePixel(l.y0),
                                             TruncDiv(IF dx > dy THEN dx ELSE 0 - dy, 2), 0,
                                             FloatToInt(FloatSqrt(SquaredLength(l), 0 - 8)))]
    /\ UNCHANGED <<cur, alive, ctx, mem, fault, pending>>

\* int lengthp = sqrt(pow(x - params->x0, 2) + pow(y - params->y0, 2))
LengthP(l, x, y) ==
    LET ax == ((x - l.x0.px) * 256) - l.x0.sub
        ay == ((y - l.y0.px) * 256) - l.y0.sub
    IN  ISqrt((ax * ax) + (ay * ay)) \div 256

\* the loop variables after `p += 1; e2 = err; if(e2 > -dx) { err -= dy;
\* x += sx; } if(e2 < dy) { err += dx; y += sy; }'; p is counted up to
\* MaxLineSteps
LoopAdvance(v, x0, y0, x1, y1) ==
    LET dx == Abs(x1 - x0)
        dy == Abs(y1 - y0)
        sx == IF x0 < x1 THEN 1 ELSE 0 - 1
        sy == IF y0 < y1 THEN 1 ELSE 0 - 1
        stepx == v.err > 0 - dx
        stepy == v.err < dy
    IN  LoopVars(IF stepx THEN v.x + sx ELSE v.x, IF stepy THEN v.y + sy ELSE v.y,
                 (v.err - (IF stepx THEN dy ELSE 0)) + (IF stepy THEN dx ELSE 0),
                 IF v.p < MaxLineSteps THEN v.p + 1 ELSE v.p, v.length)

\* the loop variables after one iteration of `for(;;)': the break, or the step
Iterated(l, rule, v) ==
    IF LengthP(l, v.x, v.y) >= v.length
    THEN [kind |-> "returned"]
    ELSE LoopAdvance(v, Fixed24_8(l.x0, rule), Fixed24_8(l.y0, rule),
                     Fixed24_8(l.x1, rule), Fixed24_8(l.y1, rule))

\* the fragments after one iteration that did not break: one more for a
\* pixel inside the target (MaxLineSteps of them are kept)
Emitted(c, frags, v) ==
    IF InTarget(c, v.x, v.y) /\ Len(frags) < MaxLineSteps
    THEN Append(frags, [kind |-> "line", x |-> v.x, y |-> v.y])
    ELSE frags

\* one iteration of `for(;;)'
RasterLineIterate ==
    /\ last.op = "_raster_line" /\ last.frag.kind = "loop"
    /\ last' = [last EXCEPT !.frag = Iterated(last.args[1], last.args[2], last.frag)]
    /\ pending' = IF Iterated(last.args[1], last.args[2], last.frag).kind = "returned"
                  THEN pending ELSE Emitted(ctx[cur], pending, last.frag)
    /\ UNCHANGED <<cur, alive, ctx, mem, fault>>

NextLoop == RasterLineEnter \/ RasterLineIterate

SpecLoop == InitLoop /\ [][NextLoop]_vars

\* the code in the loop runs on: an iteration that can change the state of
\* the loop is taken
SpecLoopLive == SpecLoop /\ WF_vars(RasterLineIterate)

\* the two ends of the line are the same point
ZeroLength == SquaredLength(last.args[1]) = 0

\* C26: for every raster line (off-screen endpoints, endpoints equal in 24.8
\* fixed point and lines shorter than a pixel included) the stepping loop of
\* _raster_line terminates, and a line of zero length contributes no
\* fragments
C26_LineTerminates ==
    /\ (last.frag.kind = "loop") ~> (last.frag.kind = "returned")
    /\ [](ZeroLength => pending = << >>)

\* the loop is at a line of length 3 whose ends are both FarPixel and more
\* to the right of the target: dx and dy are 0, no step was taken after
\* MaxLineSteps iterations, and lengthp is 0
C26_FarLineStuck ==
    /\ last.frag.kind = "loop" /\ last.frag.p = MaxLineSteps
    /\ last.args[1].x0.px = FarPixel /\ last.args[1].x1.px = FarPixel + 3
    /\ last.args[1].y0 = last.args[1].y1
    /\ last.frag.x = FarPixel /\ last.frag.y = WholePixel(last.args[1].y0)
    /\ LengthP(last.args[1], last.frag.x, last.frag.y) = 0

\* the loop of a line of two pixels and a half inside the target returned
\* after its fragments
C26_NearLineReturns ==
    /\ last.frag.kind = "returned" /\ ~ZeroLength
    /\ last.args[1].x0.px = 0 /\ last.args[1].x1.px = 2
    /\ Len(pending) = 2

\* the call with a line of zero length returned with no fragment
C26_ZeroLengthReturns ==
    /\ last.frag.kind = "returned" /\ ZeroLength /\ pending = << >>

(***************************************************************************)
(* Clipping of triangles.  _process_triangle on a triangle with a vertex   *)
(* outside the clip volume makes a list of vertices with clip_triangle and *)
(* calls itself on the triangles of the fan.  The clipper keeps the last   *)
(* position it was given and its outcode in file-scope variables; `old' is *)
(* the record of the two.  Quotients are kept to 256ths (checked under     *)
(* SpecClip).                                                              *)
(***************************************************************************)
\* float dot(int32_t plane, brvec4 v)
dot(plane, v) ==
    CASE plane = 0 -> v[1] + v[4]
      [] plane = 1 -> (0 - v[1]) + v[4]
      [] plane = 2 -> v[2] + v[4]
      [] plane = 3 -> (0 - v[2]) + v[4]
      [] plane = 4 -> v[3] + v[4]
      [] plane = 5 -> (0 - v[4]) + v[4]
      [] OTHER -> 0

\* brvec4 lerp(brvec4 a, brvec4 b, float t)
lerp(a, b, t) == [k \in 1..4 |-> FMul(FOne - t, a[k]) + FMul(t, b[k])]

\* float _fdiv(float a, float b)
_fdiv(a, b) == IF b = 0 THEN 0 ELSE TruncDiv(a * FOne, b)

\* outcode & (1 << plane)
HasBit(outcode, plane) == (outcode \div (2^plane)) % 2 = 1

\* aold and anew after the loop over the planes of mask: each plane of the
\* mask assigns both, so that they are what the last such plane leaves
ClipperAlphas(old, v, mask) ==
    LET i == CHOOSE plane \in 0..5 :
                 HasBit(mask, plane) /\ \A q \in (plane + 1)..5 : ~HasBit(mask, q)
        aold == dot(i, old.pos)
        anew == dot(i, v)
        alpha == _fdiv(aold, aold - anew)
    IN  [aold |-> IF HasBit(old.outcode, i) /\ aold < alpha THEN alpha ELSE aold,
         anew |-> IF ~HasBit(old.outcode, i) /\ anew > alpha THEN alpha ELSE anew]

\* clipper(false, v): the position is kept if it is inside
ClipperMove(old, v) == IF get_outcode(v) = 0 THEN [pos |-> v, outcode |-> 0] ELSE old

\* clipper(true, v) with result_old = &a and result_new = &b: what a and b
\* are after it, and the file-scope variables
ClipperDraw(old, a, b, v) ==
    LET new_outcode == get_outcode(v)
        mask == BitOr(new_outcode, old.outcode)
        al == ClipperAlphas(old, v, mask)
        old_pos == IF old.outcode # 0 THEN lerp(old.pos, v, al.aold) ELSE old.pos
    IN  [a |-> IF OutcodeAnd(new_outcode, old.outcode) # 0 THEN a
               ELSE IF mask = 0 THEN old.pos ELSE old_pos,
         b |-> IF OutcodeAnd(new_outcode, old.outcode) # 0 THEN b
               ELSE IF mask = 0 \/ new_outcode = 0 THEN v
               ELSE lerp(old_pos, v, al.anew),
         old |-> [pos |-> v, outcode |-> new_outcode]]

\* clip_line(&a, &b) in full
ClipLine(old, a, b) ==
    IF in_frustum(a) = in_frustum(b) THEN [a |-> a, b |-> b, old |-> old]
    ELSE ClipperDraw(ClipperMove(old, a), a, b, b)

\* one turn of the loop of clip_triangle, on the edge from previous_vertex to
\* current_vertex
ClipEdge(s, previous_vertex, current_vertex) ==
    LET previous_inside == in_frustum(previous_vertex)
        current_inside == in_frustum(current_vertex)
        r == IF current_inside # previous_inside
             THEN ClipLine(s.old, previous_vertex, current_vertex)
             ELSE [a |-> previous_vertex, b |-> current_vertex, old |-> s.old]
        v1 == IF current_inside # previous_inside /\ previous_inside
              THEN Append(s.verts, r.b) ELSE s.verts
        v2 == IF current_inside # previous_inside /\ current_inside
              THEN Append(v1, r.a) ELSE v1
    IN  [verts |-> IF current_inside THEN Append(v2, current_vertex) ELSE v2, old |-> r.old]

\* clip_triangle on the three vertices `in': the list it leaves and the
\* variables of the clipper
clip_triangle(old, in) ==
    ClipEdge(ClipEdge(ClipEdge([verts |-> << >>, old |-> old], in[3], in[1]),
                      in[1], in[2]),
             in[2], in[3])

\* the parent after _process_triangle divided and scaled its vertices in
\* place, with parent_orig_v0, parent_orig_v1 and parent_orig_v2
ParentProcessed(c, t) ==
    LET Own(v) == [PerspDiv(c, v) EXCEPT ![3] = ScaleZ(c, PerspDiv(c, v)[3])]
        Orig(v) == <<RasterX(c, Own(v)[1]), RasterY(c, Own(v)[2])>>
    IN  [t EXCEPT !.v0 = Own(t.v0), !.v1 = Own(t.v1), !.v2 = Own(t.v2),
                  !.parent_orig_v0 = Orig(t.v0), !.parent_orig_v1 = Orig(t.v1),
                  !.parent_orig_v2 = Orig(t.v2)]

\* the raster triangle of a child made of its own positions only
ChildRasterOwn(c, t, g) ==
    LET n0 == PerspDiv(c, t.v0)
        n1 == PerspDiv(c, t.v1)
        n2 == PerspDiv(c, t.v2)
    IN  [x0 |-> RasterX(c, n0[1]), y0 |-> RasterY(c, n0[2]),
         x1 |-> RasterX(c, n1[1]), y1 |-> RasterY(c, n1[2]),
         x2 |-> RasterX(c, n2[1]), y2 |-> RasterY(c, n2[2]),
         o0 |-> <<RasterX(c, n0[1]), RasterY(c, n0[2])>>,
         o1 |-> <<RasterX(c, n1[1]), RasterY(c, n1[2])>>,
         o2 |-> <<RasterX(c, n2[1]), RasterY(c, n2[2])>>,
         bary0 |-> <<1, 0, 0>>, bary1 |-> <<0, 1, 0>>, bary2 |-> <<0, 0, 1>>,
         z0 |-> _convert_depth(c, ScaleZ(c, n0[3]), g),
         z1 |-> _convert_depth(c, ScaleZ(c, n1[3]), g),
         z2 |-> _convert_depth(c, ScaleZ(c, n2[3]), g),
         w0 |-> n0[4], w1 |-> n1[4], w2 |-> n2[4],
         rgba0 |-> Fixed16x4(t.rgba0), rgba1 |-> Fixed16x4(t.rgba1),
         rgba2 |-> Fixed16x4(t.rgba2), draw_top |-> FALSE]

\* the raster triangle _process_triangle hands to _split_raster_triangle for
\* the triangle t: its positions divided by its w; orig, z and w of its
\* parent if it has one (t.parent is << >> for NULL, or holds the parent)
RasterTriangle(c, t, g) ==
    LET n0 == PerspDiv(c, t.v0)
        n1 == PerspDiv(c, t.v1)
        n2 == PerspDiv(c, t.v2)
        child == t.parent # << >>
        z0 == IF child THEN t.parent[1].v0[3] ELSE ScaleZ(c, n0[3])
        z1 == IF child THEN t.parent[1].v1[3] ELSE ScaleZ(c, n1[3])
        z2 == IF child THEN t.parent[1].v2[3] ELSE ScaleZ(c, n2[3])
    IN  [x0 |-> RasterX(c, n0[1]), y0 |-> RasterY(c, n0[2]),
         x1 |-> RasterX(c, n1[1]), y1 |-> RasterY(c, n1[2]),
         x2 |-> RasterX(c, n2[1]), y2 |-> RasterY(c, n2[2]),
         o0 |-> IF child THEN t.parent[1].parent_orig_v0
                ELSE <<RasterX(c, n0[1]), RasterY(c, n0[2])>>,
         o1 |-> IF child THEN t.parent[1].parent_orig_v1
                ELSE <<RasterX(c, n1[1]), RasterY(c, n1[2])>>,
         o2 |-> IF child THEN t.parent[1].parent_orig_v2
                ELSE <<RasterX(c, n2[1]), RasterY(c, n2[2])>>,
         bary0 |-> <<1, 0, 0>>, bary1 |-> <<0, 1, 0>>, bary2 |-> <<0, 0, 1>>,
         z0 |-> _convert_depth(c, z0, g), z1 |-> _convert_depth(c, z1, g),
         z2 |-> _convert_depth(c, z2, g),
         w0 |-> IF child THEN t.parent[1].v0[4] ELSE n0[4],
         w1 |-> IF child THEN t.parent[1].v1[4] ELSE n1[4],
         w2 |-> IF child THEN t.parent[1].v2[4] ELSE n2[4],
         rgba0 |-> Fixed16x4(t.rgba0), rgba1 |-> Fixed16x4(t.rgba1),
         rgba2 |-> Fixed16x4(t.rgba2), draw_top |-> FALSE]

\* the triangles of the fan: (verts[0], verts[i], verts[i+1]) for i from 1
\* to vert_count - 2, each a copy of the parent with these vertices
FanChildren(t, verts) ==
    [i \in 1..(IF Len(verts) > 1 THEN Len(verts) - 2 ELSE 0) |->
        [t EXCEPT !.v0 = verts[1], !.v1 = verts[i + 1], !.v2 = verts[i + 2]]]

\* _process_triangle(t), called at `level' of its recursion: the raster
\* triangles that reach _split_raster_triangle, each with the level of the
\* call that made it and whether that call's triangle had a parent, and the
\* variables of the clipper afterwards
RECURSIVE ProcessTriangle(_, _, _, _, _)
ProcessTriangle(c, t, old, g, level) ==
    LET orphan == t.parent = << >>
        outside == {v \in {t.v0, t.v1, t.v2} : ~in_frustum(v)}
        clipped == clip_triangle(old, <<t.v0, t.v1, t.v2>>)
        children == FanChildren([t EXCEPT !.parent = <<ParentProcessed(c, t)>>], clipped.verts)
    IN  IF orphan /\ Culled(c, t.v0, t.v1, t.v2) THEN [calls |-> << >>, old |-> old]
        ELSE IF c.clip /\ orphan /\ ~in_frustum(t.v0) /\ ~in_frustum(t.v1) /\ ~in_frustum(t.v2)
        THEN [calls |-> << >>, old |-> old]
        ELSE IF c.clip /\ orphan /\ outside # {}
        THEN [calls |-> Concat([i \in 1..Len(children) |->
                                   ProcessTriangle(c, children[i], clipped.old, g,
                                                   level + 1).calls]),
              old |-> clipped.old]
        ELSE [calls |-> <<[level |-> level, child |-> ~orphan,
                           raster |-> RasterTriangle(c, t, g)]>>,
              old |-> old]

\* the vertices of the triangles: inside the clip volume, and outside it
ClipInside ==
    {<<0, 0, 0, FOne>>, <<0, FOne \div 2, FOne \div 2, FOne>>,
     <<0 - (FOne \div 2), 0 - (FOne \div 2), FOne, FOne>>, <<FOne, 0, FOne, 2 * FOne>>}
ClipOutside ==
    {<<2 * FOne, 0, FOne \div 2, FOne>>, <<0, 2 * FOne, 0, FOne>>,
     <<0 - (2 * FOne), 0 - (2 * FOne), FOne \div 2, FOne>>}
\* what the clipper holds from the calls before: nothing, or a position
\* right of the clip volume
ClipperBefore ==
    {[pos |-> <<0, 0, 0, 0>>, outcode |-> 0],
     [pos |-> <<2 * FOne, 0, FOne \div 2, FOne>>, outcode |-> 2]}

\* _process_triangle is about to be called on a red triangle, in a context
\* with an 8x8 colour buffer and a 16-bit depth buffer, clipping enabled,
\* culling enabled or not
InitClip ==
    /\ cur = 1
    /\ alive = {1}
    /\ mem = [b \in {BufCL} |-> [i \in 1..(LargeW * LargeH) |-> StalePixel]]
    /\ fault = "none"
    /\ pending = << >>
    /\ \E cull \in BOOLEAN, old \in ClipperBefore :
       \E v0 \in ClipInside \cup ClipOutside, v1 \in ClipInside \cup ClipOutside,
          v2 \in ClipInside \cup ClipOutside :
          /\ v0 # v1 /\ v1 # v2 /\ v0 # v2
          /\ ctx = [c \in CtxIds |->
                       IF c = 1 THEN [ArraysSet EXCEPT !.cb = BufCL, !.cb_type = BR_R8G8B8A8,
                                                       !.db = BufDA, !.db_type = BR_D16,
                                                       !.rb_width = LargeW,
                                                       !.rb_height = LargeH, !.cull = cull]
                       ELSE DefaultContext]
          /\ last = [op |-> "tri", cur0 |-> 1,
                     args |-> <<[v0 |-> v0, v1 |-> v1, v2 |-> v2,
                                 rgba0 |-> <<FOne, 0, 0, FOne>>, rgba1 |-> <<FOne, 0, 0, FOne>>,
                                 rgba2 |-> <<FOne, 0, 0, FOne>>, parent |-> << >>,
                                 parent_orig_v0 |-> <<0, 0>>, parent_orig_v1 |-> <<0, 0>>,
                                 parent_orig_v2 |-> <<0, 0>>], old>>,
                     before |-> DefaultContext, run |-> 0, base |-> DefaultContext,
                     frag |-> NoFragment, dst_color |-> <<0, 0>>, dst_depth |-> <<0, 0>>]

\* the call of _process_triangle on the triangle of brDrawArray
ProcessTriangleCall ==
    /\ last.op = "tri"
    /\ last' = [last EXCEPT
                  !.op = "_process_triangle",
                  !.frag = [kind |-> "triangles",
                            done |-> ProcessTriangle(ctx[cur], last.args[1], last.args[2],
                                                     <<0, 0>>, 0)]]
    /\ UNCHANGED <<cur, alive, ctx, mem, fault, pending>>

NextClip == ProcessTriangleCall

SpecClip == InitClip /\ [][NextClip]_vars

\* the triangle t needs clipping in the context c
NeedsClipping(c, t) ==
    /\ c.clip /\ ~Culled(c, t.v0, t.v1, t.v2)
    /\ \E v \in {t.v0, t.v1, t.v2} : in_frustum(v)
    /\ \E v \in {t.v0, t.v1, t.v2} : ~in_frustum(v)

\* the raster triangle r has the barycentric domain, the z and the w of the
\* triangle t before it was clipped, and the identity as its remap vectors
InheritsParent(c, t, r) ==
    LET Pos(v) == <<RasterX(c, PerspDiv(c, v)[1]), RasterY(c, PerspDiv(c, v)[2])>>
        Depth(v) == _convert_depth(c, ScaleZ(c, PerspDiv(c, v)[3]), <<0, 0>>)
    IN  /\ r.o0 = Pos(t.v0) /\ r.o1 = Pos(t.v1) /\ r.o2 = Pos(t.v2)
        /\ r.z0 = Depth(t.v0) /\ r.z1 = Depth(t.v1) /\ r.z2 = Depth(t.v2)
        /\ r.w0 = t.v0[4] /\ r.w1 = t.v1[4] /\ r.w2 = t.v2[4]
        /\ r.bary0 = <<1, 0, 0>> /\ r.bary1 = <<0, 1, 0>> /\ r.bary2 = <<0, 0, 1>>

\* all of the fan of a clipped triangle t is rastered, each triangle by a
\* call one level down that neither culls nor clips, with what it inherits
SubTrianglesInherit(c, t, old, calls) ==
    /\ Len(calls) = Len(FanChildren(t, clip_triangle(old, <<t.v0, t.v1, t.v2>>).verts))
    /\ \A k \in 1..Len(calls) :
          /\ calls[k].level = 1 /\ calls[k].child
          /\ InheritsParent(c, t, calls[k].raster)

\* C27: every sub-triangle made by clipping a parent triangle is rasterized
\* with the parent's three pre-clip 24.8 raster positions as its barycentric
\* domain and with the parent's z and w, its remap vectors are the identity,
\* and it is never culled nor clipped again: processing a triangle recurses
\* at most one level
C27_SubTriangles ==
    last.op = "_process_triangle" =>
        /\ \A k \in 1..Len(last.frag.done.calls) : last.frag.done.calls[k].level <= 1
        /\ NeedsClipping(ctx[cur], last.args[1])
              => SubTrianglesInherit(ctx[cur], last.args[1], last.args[2],
                                     last.frag.done.calls)

\* a triangle with one vertex outside was clipped with culling enabled into
\* two sub-triangles; one of them has a position that is no position of the
\* parent, a vertex outside the clip volume, and a winding that is culled
C27_Witness ==
    /\ last.op = "_process_triangle" /\ ctx[cur].cull
    /\ NeedsClipping(ctx[cur], last.args[1])
    /\ Len(last.frag.done.calls) = 2
    /\ \E k \in 1..2 :
          LET r == last.frag.done.calls[k].raster
          IN  /\ <<r.x1, r.y1>> \notin {r.o0, r.o1, r.o2}
              /\ r.z0 # r.z1

(***************************************************************************)
(* Draw calls and the two sets.  The application gives each of its arrays  *)
(* to one set at a time, swaps, clears and draws.                          *)
(***************************************************************************)
\* the array is in no slot of the bound context
InNoSet(buffer) ==
    cur # NULL /\ buffer \notin {ctx[cur].cb, ctx[cur].db, ctx[cur].cb2, ctx[cur].db2}

\* the application draws once each set holds a colour buffer
BothSets == cur # NULL /\ ctx[cur].cb # NULL /\ ctx[cur].cb2 # NULL

NextSets ==
    \/ InNoSet(BufCA) /\ brBindRenderbuffer(BR_R8G8B8A8, BigW, BigH, BufCA)
    \/ InNoSet(BufDA) /\ brBindRenderbuffer(BR_D16, BigW, BigH, BufDA)
    \/ InNoSet(BufCS) /\ brBindRenderbuffer(BR_R5G5B5A1, SmallW, SmallH, BufCS)
    \/ InNoSet(BufDS) /\ brBindRenderbuffer(BR_D32, SmallW, SmallH, BufDS)
    \/ brEnable(BR_DOUBLE_BUFFER)
    \/ brDisable(BR_DOUBLE_BUFFER)
    \/ brSwapBuffers
    \/ brClear({COLOR_BIT, DEPTH_BIT})
    \/ \E ptype \in {BR_POINTS, BR_TRIANGLES} :
          BothSets /\ brDrawArray(ptype, VerticesOf(ptype), 1)
    \/ BothSets /\ brDrawElements(BR_LINES, 2, 1, <<2, 1, 0>>)
    \/ Finalize

SpecSets == InitDraw /\ [][NextSets]_vars

\* the arrays of a set
ArraysOf(t) == {t.cb, t.db} \ {NULL}

\* C28: a step of brDrawArray or brDrawElements changes the memory of no
\* array but the colour buffer and the depth buffer of the front set, with
\* BR_DOUBLE_BUFFER enabled or not: the buffers of the back set are as they
\* were, so that with BR_DOUBLE_BUFFER enabled a brClear and the draw after
\* it write two different sets
C28_DrawsWriteFrontSet ==
    [][(DrawStep /\ cur # NULL) =>
          /\ \A b \in ArraysOf(BackSet(ctx[cur])) : mem'[b] = mem[b]
          /\ \A b \in BufIds \ ArraysOf(FrontSet(ctx[cur])) : mem'[b] = mem[b]
    ]_vars

\* C28 witness: with double buffering on, a clear filled the colour and the
\* depth buffer of the back set and the draw after it went to its end: the
\* front set's buffers hold its fragments, the back set's buffers the clear
\* values in every pixel
C28_Witness ==
    /\ cur # NULL /\ ctx[cur].double_buffer /\ pending = << >>
    /\ last.op \in {"brDrawArray", "brDrawElements"}
    /\ ctx[cur].cb = BufCA /\ ctx[cur].db = BufDA
    /\ ctx[cur].cb2 = BufCS /\ ctx[cur].db2 = BufDS
    /\ \E i \in DOMAIN mem[BufCA] : mem[BufCA][i] = <<65280, 255>>
    /\ \E i \in DOMAIN mem[BufDA] :
          mem[BufDA][i] \notin ClearDepthValues(BR_D16, ctx[cur].clear_depth) \cup {StalePixel}
    /\ \E v \in ClearColorValues(BR_R5G5B5A1, ctx[cur].clear_color) : AllPixels(mem, BufCS, v)
    /\ \E v \in ClearDepthValues(BR_D32, ctx[cur].clear_depth) : AllPixels(mem, BufDS, v)

\* C28 witness: with double buffering off, a draw to its end changed the
\* front set's colour buffer and left the back set's buffers untouched
C28_WitnessSingle ==
    /\ cur # NULL /\ ~ctx[cur].double_buffer /\ pending = << >>
    /\ last.op \in {"brDrawArray", "brDrawElements"}
    /\ ctx[cur].cb = BufCA /\ ctx[cur].cb2 = BufCS /\ ctx[cur].db2 = BufDS
    /\ ~Untouched(BufCA)
    /\ Untouched(BufCS) /\ Untouched(BufDS)

(***************************************************************************)
(* The depth buffer over a sequence of draw calls (checked under           *)
(* SpecDepth; BR_DEPTH_WRITE is enabled from brCreateContext on).          *)
(***************************************************************************)
\* the draw call in progress tests and writes depths
TestsAndWrites ==
    /\ cur # NULL
    /\ ctx[cur].depth_test /\ ctx[cur].depth_write
    /\ ctx[cur].db # NULL

\* C29: with BR_DEPTH_TEST and BR_DEPTH_WRITE enabled and a depth buffer
\* bound, no step of a draw call raises the depth stored at any pixel, and a
\* step changes the colour of a pixel only if it is the pixel of the step's
\* fragment and the depth stored there was greater than or equal to the depth
\* of the fragment
C29_DepthNeverIncreases ==
    [][(DrawStep /\ TestsAndWrites) =>
          LET c == ctx[cur]
          IN  /\ \A i \in DOMAIN mem[c.db] : WLe(mem'[c.db][i], mem[c.db][i])
              /\ c.cb # NULL =>
                    \A i \in DOMAIN mem[c.cb] :
                        mem'[c.cb][i] # mem[c.cb][i] =>
                            /\ last'.frag.kind # "none"
                            /\ i = (last'.frag.y * c.rb_width) + last'.frag.x + 1
                            /\ WLe(last'.frag.depth, mem[c.db][i])
    ]_vars

\* C29 witness: a fragment went to a pixel whose depth an earlier draw call
\* had written; it was nearer, and it lowered the depth and changed the colour
C29_Witness ==
    /\ DepthTested /\ ctx[cur].depth_write /\ ctx[cur].cb # NULL
    /\ last.op \in {"brDrawArray", "brDrawElements"}
    /\ last.dst_depth # StalePixel
    /\ last.dst_depth \notin ClearDepthValues(ctx[cur].db_type, ctx[cur].clear_depth)
    /\ WLt(last.frag.depth, last.dst_depth)
    /\ mem[ctx[cur].db][FragmentPixel] = last.frag.depth
    /\ mem[ctx[cur].cb][FragmentPixel] # last.dst_color

\* C29 witness: a fragment deeper than what an earlier draw call had written
\* to its pixel left the depth and the colour of the pixel as they were
C29_WitnessDeeper ==
    /\ DepthTested /\ ctx[cur].depth_write /\ ctx[cur].cb # NULL
    /\ last.op \in {"brDrawArray", "brDrawElements"}
    /\ last.dst_depth # StalePixel
    /\ last.dst_depth \notin ClearDepthValues(ctx[cur].db_type, ctx[cur].clear_depth)
    /\ FragmentInRange /\ WLt(last.dst_depth, last.frag.depth)
    /\ PixelUntouched /\ last.dst_color # FragmentColor

(***************************************************************************)
(* The pixels the rasterizers reach.  The application draws primitives     *)
(* with vertices inside and outside the viewport, with clipping enabled    *)
(* (for those inside) and disabled, into a colour and a depth buffer.      *)
(***************************************************************************)
\* the arrays drawn: the red triangle to the corners of the viewport, the
\* triangle outside the clip volume, the two vertices left and right of the
\* viewport, and the triangle of three times the size of the viewport
BoundsArrays == {2, 4, 10, 11}

NextBounds ==
    \/ brBindRenderbuffer(BR_R8G8B8A8, BigW, BigH, BufCA)
    \/ brBindRenderbuffer(BR_D16, BigW, BigH, BufDA)
    \/ brDisable(BR_CLIP)
    \/ brDisable(BR_DEPTH_TEST)
    \/ \E ptype \in PrimitiveTypes, array \in BoundsArrays :
          brDrawArray(ptype, VerticesOf(ptype), array)
    \/ \E array \in {4, 11} : brDrawElements(BR_TRIANGLES, 3, array, <<2, 1, 0>>)
    \/ Finalize

SpecBounds == InitDraw /\ [][NextBounds]_vars

\* 0 <= x < width and 0 <= y < height of the front set of c
InFrontSet(c, x, y) == 0 <= x /\ x < c.rb_width /\ 0 <= y /\ y < c.rb_height

\* C30: every pass of the scanline loops of the triangle rasterizer is at a
\* pixel (x, y) with 0 <= x < width and 0 <= y < height of the front set, and
\* a step of a draw call that changes the memory does so for a fragment of a
\* triangle, line or point at such a pixel and only at the index x + y*width
\* of the front set's colour and depth buffer (where the depth is read too),
\* whatever the positions of the vertices, with clipping disabled as well
C30_IndicesInTarget ==
    [][(DrawStep /\ cur # NULL) =>
          LET c == ctx[cur]
              f == last'.frag
          IN  /\ \A k \in 1..Len(pending') :
                    pending'[k].kind = "triangle"
                        => InFrontSet(c, pending'[k].x, pending'[k].y)
              /\ mem' # mem =>
                    /\ f.kind # "none" /\ InFrontSet(c, f.x, f.y)
                    /\ \A b \in BufIds : \A i \in DOMAIN mem[b] :
                          mem'[b][i] # mem[b][i] =>
                              b \in {c.cb, c.db} /\ i = (f.x + (f.y * c.rb_width)) + 1
    ]_vars

\* C30 witness: with clipping disabled the triangle of three times the size
\* of the viewport was drawn to its end, and every pixel of the colour buffer
\* was written
C30_Witness ==
    /\ cur # NULL /\ ~ctx[cur].clip /\ pending = << >>
    /\ last.op \in {"brDrawArray", "brDrawElements"}
    /\ last.args[1] = BR_TRIANGLES /\ last.args[3] = 11
    /\ ctx[cur].cb = BufCA /\ ctx[cur].db = BufDA
    /\ last.frag.kind # "none"
    /\ \A i \in DOMAIN mem[BufCA] : mem[BufCA][i] # StalePixel

\* C30 witness: with clipping disabled the line between the two vertices left
\* and right of the viewport was drawn to its end and wrote a pixel
C30_WitnessLine ==
    /\ cur # NULL /\ ~ctx[cur].clip /\ pending = << >>
    /\ last.op = "brDrawArray" /\ last.args[1] = BR_LINES /\ last.args[3] = 10
    /\ ctx[cur].cb = BufCA
    /\ last.frag.kind = "line"
    /\ ~Untouched(BufCA)

\* C30 witness: a pass of a point (a vertex mark is one) was at x = width and
\* wrote nothing
C30_WitnessPoint ==
    /\ cur # NULL /\ ctx[cur].cb = BufCA
    /\ last.op \in {"brDrawArray", "brDrawElements"}
    /\ \E k \in 1..Len(pending) :
          /\ pending[k].kind = "point"
          /\ pending[k].x = ctx[cur].rb_width
          /\ 0 <= pending[k].y /\ pending[k].y < ctx[cur].rb_height - 1
=============================================================================
